---- MODULE Spec2Model ----
(***************************************************************************)
(* Flight simulation and airspace-rules engine of agentic-airport.         *)
(*                                                                         *)
(* Numbers of the program are IEEE doubles; the model keeps them in fixed  *)
(* point:                                                                  *)
(*   position   1/100 pixel         (PosScale units per pixel)             *)
(*   speed      1/1000 pixel/frame  (0.15 is 150, 0.8 is 800)              *)
(*   heading    whole degrees                                              *)
(*   cos, sin   thousandths, from a table of sin(0..90 degrees)            *)
(*   deltaTime  whole frames of 16.67 ms (dt = deltaTime / 16.67)          *)
(***************************************************************************)
EXTENDS Integers, Sequences, FiniteSets

VARIABLES
    planes,      \* GameState.planes: the roster, a sequence of Plane records
    isPaused,    \* GameState.isPaused
    collisions,  \* GameState.collisions
    landings,    \* GameState.landings
    gameTime,    \* GameState.gameTime, in frames
    canvasSize,  \* canvasSize of App, copied to GameState.canvasWidth, canvasHeight
    planeCounter,\* planeCounter of planeFactory: the number of planes created
    ticks,       \* history: number of unpaused updateGame calls so far
    aiCalls,     \* history: number of command batches applied so far
    aiRequest,   \* the roster sent with the decision request that callAI awaits
                 \* (isAiProcessing is true); <<>> when no request is in flight
    spawns,      \* history: number of planes spawned by the spawn effect so far
    last         \* history: the last tick or command batch, the roster before
                 \* it and the rosters between the passes of the tick

vars == <<planes, isPaused, collisions, landings, gameTime, canvasSize, planeCounter,
          aiRequest, ticks, aiCalls, spawns, last>>

----------------------------------------------------------------------------
(* Bounds of the model *)

MaxPlanes == 3
MaxTicks == 2
MaxAiCalls == 1
MaxSpawns == 1
MaxHolds == 13
MaxCommands == 4

----------------------------------------------------------------------------
(* Fixed-point representation *)

PosScale == 100
TrigScale == 1000
Undefined == -999999

Abs(n) == IF n < 0 THEN -n ELSE n

\* Division rounding to nearest, as the double result rounded to the grid.
RoundDiv(a, b) ==
    IF a >= 0 THEN (2 * a + b) \div (2 * b) ELSE -((2 * (-a) + b) \div (2 * b))

\* The % operator of JavaScript: the sign of the result follows the dividend.
JsRem(a, n) == IF a >= 0 THEN a % n ELSE -((-a) % n)

SinTable ==
    <<0, 17, 35, 52, 70, 87, 105, 122, 139, 156, 174, 191, 208, 225, 242, 259,
      276, 292, 309, 326, 342, 358, 375, 391, 407, 423, 438, 454, 469, 485, 500,
      515, 530, 545, 559, 574, 588, 602, 616, 629, 643, 656, 669, 682, 695, 707,
      719, 731, 743, 755, 766, 777, 788, 799, 809, 819, 829, 839, 848, 857, 866,
      875, 883, 891, 899, 906, 914, 921, 927, 934, 940, 946, 951, 956, 961, 966,
      970, 974, 978, 982, 985, 988, 990, 993, 995, 996, 998, 999, 999, 1000,
      1000>>

\* Math.sin of a heading in degrees, in thousandths.
Sin(deg) ==
    LET a == deg % 360
    IN  IF a <= 90 THEN SinTable[a + 1]
        ELSE IF a <= 180 THEN SinTable[180 - a + 1]
        ELSE IF a <= 270 THEN -SinTable[a - 180 + 1]
        ELSE -SinTable[360 - a + 1]

\* Math.cos of a heading in degrees, in thousandths.
Cos(deg) == Sin(deg + 90)

\* Math.atan2(dy, dx) * 180 / Math.PI, to the degree, in (-180, 180].
Atan2Deg(dy, dx) ==
    LET ax == Abs(dx)
        ay == Abs(dy)
        \* the angle a in 0..90 with tan(a) <= ay/ax < tan(a+1)
        lo == Cardinality({a \in 1..90 : SinTable[a + 1] * ax <= SinTable[90 - a + 1] * ay})
        \* nearest of lo and lo + 1
        a  == IF lo < 90 /\
                 Abs(SinTable[lo + 2] * ax - SinTable[90 - lo] * ay)
                   < Abs(SinTable[lo + 1] * ax - SinTable[90 - lo + 1] * ay)
              THEN lo + 1 ELSE lo
    IN  IF dy = 0 THEN (IF dx >= 0 THEN 0 ELSE 180)
        ELSE IF dx >= 0 /\ dy >= 0 THEN a
        ELSE IF dx < 0 /\ dy >= 0 THEN 180 - a
        ELSE IF dx < 0 /\ dy < 0 THEN a - 180
        ELSE -a

----------------------------------------------------------------------------
(* Geometry kernel *)

normalizeAngle(angle) ==
    LET a == JsRem(angle, 360)
    IN  IF a < 0 THEN a + 360 ELSE a

\* distance(p1, p2) < d, for d in pixels: the square root is never taken,
\* sqrt(s) < d is s < d*d. The guards on |dx|, |dy| keep the squares small.
DistanceLess(p1, p2, d) ==
    LET dx == p2.x - p1.x
        dy == p2.y - p1.y
        dd == d * PosScale
    IN  /\ Abs(dx) < dd
        /\ Abs(dy) < dd
        /\ dx * dx + dy * dy < dd * dd

\* getWrappedDelta with a slip: the canvas size is added where it is to be
\* subtracted, and subtracted where it is to be added.
getWrappedDelta_WrongWay(p1, p2, canvasWidth, canvasHeight) ==
    LET dx == p2.x - p1.x
        dy == p2.y - p1.y
    IN  [dx |-> IF canvasWidth # Undefined /\ 2 * Abs(dx) > canvasWidth
                THEN (IF dx > 0 THEN dx + canvasWidth ELSE dx - canvasWidth)
                ELSE dx,
         dy |-> IF canvasHeight # Undefined /\ 2 * Abs(dy) > canvasHeight
                THEN (IF dy > 0 THEN dy + canvasHeight ELSE dy - canvasHeight)
                ELSE dy]

\* canvasWidth / canvasHeight absent (undefined): the comparison with NaN is
\* false and the delta is left as it is.
getWrappedDelta(p1, p2, canvasWidth, canvasHeight) ==
    LET dx == p2.x - p1.x
        dy == p2.y - p1.y
    IN  [dx |-> IF canvasWidth # Undefined /\ 2 * Abs(dx) > canvasWidth
                THEN (IF dx > 0 THEN dx - canvasWidth ELSE dx + canvasWidth)
                ELSE dx,
         dy |-> IF canvasHeight # Undefined /\ 2 * Abs(dy) > canvasHeight
                THEN (IF dy > 0 THEN dy - canvasHeight ELSE dy + canvasHeight)
                ELSE dy]

\* wrappedDistance(p1, p2, W, H) < d, for d in pixels.
WrappedDistanceLess(p1, p2, canvasWidth, canvasHeight, d) ==
    LET w  == getWrappedDelta(p1, p2, canvasWidth, canvasHeight)
        dd == d * PosScale
    IN  /\ Abs(w.dx) < dd
        /\ Abs(w.dy) < dd
        /\ w.dx * w.dx + w.dy * w.dy < dd * dd

\* speed here is the displacement of the step, in position units.
movePosition(position, heading, speed) ==
    [x |-> position.x + RoundDiv(Cos(heading) * speed, TrigScale),
     y |-> position.y + RoundDiv(Sin(heading) * speed, TrigScale)]

CollisionDistance == 30

checkCollision(plane1, plane2) ==
    IF plane1.status = "landed" \/ plane2.status = "landed" THEN FALSE
    ELSE IF plane1.status = "crashed" \/ plane2.status = "crashed" THEN FALSE
    ELSE DistanceLess(plane1.position, plane2.position, CollisionDistance)

angleDifference(angle1, angle2) ==
    LET d0 == normalizeAngle(angle2) - normalizeAngle(angle1)
        d1 == IF d0 > 180 THEN d0 - 360 ELSE d0
    IN  IF d1 < -180 THEN d1 + 360 ELSE d1

\* Math.sqrt on the grid: the integer square root, by Newton's iteration.
RECURSIVE SqrtIter(_, _)
SqrtIter(n, r) ==
    LET r2 == (r + n \div r) \div 2
    IN  IF r2 >= r THEN r ELSE SqrtIter(n, r2)

Sqrt(n) == IF n <= 0 THEN 0 ELSE SqrtIter(n, n)

distance(p1, p2) ==
    IF p1.y = p2.y THEN Abs(p2.x - p1.x)
    ELSE IF p1.x = p2.x THEN Abs(p2.y - p1.y)
    ELSE Sqrt((p2.x - p1.x) * (p2.x - p1.x) + (p2.y - p1.y) * (p2.y - p1.y))

----------------------------------------------------------------------------
(* Zone classifier *)

APPROACH_ZONE_LENGTH == 300
LANDING_ZONE_EXTENSION == 100
AIRPORT_ZONE_PADDING == 30

\* runwayAngle in degrees.
toRunwayLocal(position, runwayStart, runwayAngle) ==
    LET dx == position.x - runwayStart.x
        dy == position.y - runwayStart.y
    IN  [x |-> RoundDiv(dx * Cos(-runwayAngle) - dy * Sin(-runwayAngle), TrigScale),
         y |-> RoundDiv(dx * Sin(-runwayAngle) + dy * Cos(-runwayAngle), TrigScale)]

getRunwayAngle(runwayStart, runwayEnd) ==
    Atan2Deg(runwayEnd.y - runwayStart.y, runwayEnd.x - runwayStart.x)

isOnRunway(position, runwayStart, runwayEnd, runwayWidth, includeLandingExtension) ==
    LET runwayLength == distance(runwayStart, runwayEnd)
        runwayAngle  == getRunwayAngle(runwayStart, runwayEnd)
        local        == toRunwayLocal(position, runwayStart, runwayAngle)
        maxX         == IF includeLandingExtension
                        THEN runwayLength + LANDING_ZONE_EXTENSION * PosScale
                        ELSE runwayLength
    IN  local.x >= 0 /\ local.x <= maxX /\ 2 * Abs(local.y) <= runwayWidth

isOverAirport(position, runwayStart, runwayEnd, runwayWidth) ==
    LET runwayLength == distance(runwayStart, runwayEnd)
        runwayAngle  == getRunwayAngle(runwayStart, runwayEnd)
        local        == toRunwayLocal(position, runwayStart, runwayAngle)
        padding      == AIRPORT_ZONE_PADDING * PosScale
    IN  /\ local.x >= -padding
        /\ local.x <= runwayLength + padding
        /\ 2 * Abs(local.y) <= runwayWidth + 2 * padding

isInApproachZone(position, runwayStart, runwayEnd, runwayWidth) ==
    LET runwayAngle == getRunwayAngle(runwayStart, runwayEnd)
        len         == APPROACH_ZONE_LENGTH * PosScale
        approachZoneEntry ==
            [x |-> runwayStart.x - RoundDiv(Cos(runwayAngle) * len, TrigScale),
             y |-> runwayStart.y - RoundDiv(Sin(runwayAngle) * len, TrigScale)]
        local         == toRunwayLocal(position, approachZoneEntry, runwayAngle)
        approachWidth == runwayWidth * 2
    IN  local.x >= 0 /\ local.x <= len /\ 2 * Abs(local.y) <= approachWidth

----------------------------------------------------------------------------
(* Session configuration and airport *)

\* canvasWidth, canvasHeight of useGame when the model starts, in pixels.
CanvasWidth == 1200
CanvasHeight == 800

\* DEFAULT_CONFIG.gameSpeed (0.5), in thousandths.
GameSpeed == 500

RunwayLength == 200
RunwayWidth == 40

createInitialAirport(canvasWidth, canvasHeight) ==
    LET centerX == (canvasWidth * 3) \div 4
        centerY == canvasHeight \div 2
        half    == (RunwayLength * PosScale) \div 2
    IN  [position      |-> [x |-> centerX, y |-> centerY],
         runwayStart   |-> [x |-> centerX - half, y |-> centerY],
         runwayEnd     |-> [x |-> centerX + half, y |-> centerY],
         runwayWidth   |-> RunwayWidth * PosScale,
         runwayHeading |-> 0]

\* GameState.airport: the effect on the canvas size keeps it equal to this.
airport == createInitialAirport(canvasSize.width * PosScale, canvasSize.height * PosScale)

\* The length flown in `frames` frames at `speed` scaled by gameSpeed
\* (speed * gameSpeed * frames), in position units.
Travel(speed, frames) == RoundDiv(speed * GameSpeed * frames, 10000)

----------------------------------------------------------------------------
(* Predictive safety forecaster *)

FPS == 60
CheckInterval == 5
PredictionThreshold == 50

\* The frames the forecasts sample: checkInterval, 2 checkInterval, ... up to
\* totalFrames = secondsAhead * fps.
SampleFrames(secondsAhead) ==
    {CheckInterval * k : k \in 1..((secondsAhead * FPS) \div CheckInterval)}

\* (cos(heading), sin(heading)) * speed * gameSpeed: the displacement per frame,
\* in millionths of a pixel.
Velocity(heading, speed) ==
    [x |-> RoundDiv(Cos(heading) * speed * GameSpeed, 1000),
     y |-> RoundDiv(Sin(heading) * speed * GameSpeed, 1000)]

\* position + velocity * frame, in position units.
SimPosition(position, velocity, frame) ==
    [x |-> position.x + RoundDiv(velocity.x * frame, 10000),
     y |-> position.y + RoundDiv(velocity.y * frame, 10000)]

\* CollidesAt with a slip: crashed and landed planes are not skipped.
CollidesAt_CountsTerminal(plane, newHeading, allPlanes, canvasWidth, canvasHeight, frame) ==
    LET sim == SimPosition(plane.position, Velocity(newHeading, plane.speed), frame)
    IN  \E k \in 1..Len(allPlanes) :
            LET other == allPlanes[k]
            IN  /\ other.id # plane.id
                /\ WrappedDistanceLess(
                       sim,
                       SimPosition(other.position,
                                   Velocity(other.heading, other.speed), frame),
                       canvasWidth, canvasHeight, PredictionThreshold)

\* The body of the two loops of predictCollision at one frame: some other
\* active plane, flying its own heading, is closer than the threshold to the
\* plane flying newHeading.
CollidesAt(plane, newHeading, allPlanes, canvasWidth, canvasHeight, frame) ==
    LET sim == SimPosition(plane.position, Velocity(newHeading, plane.speed), frame)
    IN  \E k \in 1..Len(allPlanes) :
            LET other == allPlanes[k]
            IN  /\ ~(other.id = plane.id \/ other.status = "crashed"
                       \/ other.status = "landed")
                /\ WrappedDistanceLess(
                       sim,
                       SimPosition(other.position,
                                   Velocity(other.heading, other.speed), frame),
                       canvasWidth, canvasHeight, PredictionThreshold)

predictCollision(plane, newHeading, allPlanes, canvasWidth, canvasHeight, secondsAhead) ==
    [willCollide |->
        \E frame \in SampleFrames(secondsAhead) :
            CollidesAt(plane, newHeading, allPlanes, canvasWidth, canvasHeight, frame)]

\* timeToCollision of the prediction, in frames (frame, not frame / fps): the
\* frame at which the loop over the frames returns, Undefined when it ends.
timeToCollision(plane, newHeading, allPlanes, canvasWidth, canvasHeight, secondsAhead) ==
    LET hits == {frame \in SampleFrames(secondsAhead) :
                    CollidesAt(plane, newHeading, allPlanes, canvasWidth, canvasHeight, frame)}
    IN  IF hits = {} THEN Undefined
        ELSE CHOOSE frame \in hits : \A other \in hits : frame <= other

\* adjustments with a slip: each left turn is tried before the right turn.
Adjustments_LeftFirst == <<-30, 30, -60, 60, -90, 90, -120, 120, -150, 150, 180>>

Adjustments == <<30, -30, 60, -60, 90, -90, 120, -120, 150, -150, 180>>

\* The null of findSafeHeading.
Null == -1

RECURSIVE SafeHeadingFrom(_, _, _, _, _, _)
SafeHeadingFrom(plane, requestedHeading, allPlanes, canvasWidth, canvasHeight, i) ==
    IF i > Len(Adjustments) THEN Null
    ELSE LET alternativeHeading == normalizeAngle(requestedHeading + Adjustments[i])
         IN  IF ~predictCollision(plane, alternativeHeading, allPlanes,
                                  canvasWidth, canvasHeight, 8).willCollide
             THEN alternativeHeading
             ELSE SafeHeadingFrom(plane, requestedHeading, allPlanes,
                                  canvasWidth, canvasHeight, i + 1)

findSafeHeading(plane, requestedHeading, allPlanes, canvasWidth, canvasHeight) ==
    SafeHeadingFrom(plane, requestedHeading, allPlanes, canvasWidth, canvasHeight, 1)

predictAirportZoneEntry(plane, heading, apt, secondsAhead) ==
    [willEnter |->
        \E frame \in SampleFrames(secondsAhead) :
            isOverAirport(SimPosition(plane.position, Velocity(heading, plane.speed), frame),
                          apt.runwayStart, apt.runwayEnd, apt.runwayWidth)]

findHeadingAwayFromAirport(plane, apt) ==
    LET runwayCenter == [x |-> (apt.runwayStart.x + apt.runwayEnd.x) \div 2,
                         y |-> (apt.runwayStart.y + apt.runwayEnd.y) \div 2]
        dx == plane.position.x - runwayCenter.x
        dy == plane.position.y - runwayCenter.y
        awayHeading == normalizeAngle(Atan2Deg(dy, dx))
    IN  IF ~predictAirportZoneEntry(plane, awayHeading, apt, 5).willEnter
        THEN awayHeading
        ELSE 180

----------------------------------------------------------------------------
(* Command validator and applier *)

MinSpeed == 150
MaxSpeed == 800
ApproachSpeed == 400
HoldHeading == 180
HoldTurn == 15
HoldMinSpeed == 200

Max2(a, b) == IF a >= b THEN a ELSE b
Min2(a, b) == IF a <= b THEN a ELSE b

\* applyTurn with a slip: the redirect away from the airport is committed
\* without the second collision forecast.
applyTurn_NoRecheck(plane, command, apt, allPlanes) ==
    IF plane.status = "approaching" THEN plane
    ELSE IF command.value = Undefined THEN plane
    ELSE
      LET requested  == normalizeAngle(command.value)
          prediction == predictCollision(plane, requested, allPlanes, Undefined, Undefined, 8)
          safeHeading == IF prediction.willCollide
                         THEN findSafeHeading(plane, requested, allPlanes, Undefined, Undefined)
                         ELSE requested
      IN  IF safeHeading = Null THEN plane
          ELSE
            IF plane.status = "flying"
               /\ predictAirportZoneEntry(plane, safeHeading, apt, 6).willEnter
            THEN [plane EXCEPT !.heading = findHeadingAwayFromAirport(plane, apt)]
            ELSE [plane EXCEPT !.heading = safeHeading]

\* applyTurn with a slip: when no safe heading is found the requested heading
\* is committed all the same.
applyTurn_IgnoreNull(plane, command, apt, allPlanes) ==
    IF plane.status = "approaching" THEN plane
    ELSE IF command.value = Undefined THEN plane
    ELSE
      LET requested  == normalizeAngle(command.value)
          prediction == predictCollision(plane, requested, allPlanes, Undefined, Undefined, 8)
          found      == IF prediction.willCollide
                        THEN findSafeHeading(plane, requested, allPlanes, Undefined, Undefined)
                        ELSE requested
          safeHeading == IF found = Null THEN requested ELSE found
      IN  IF plane.status = "flying"
             /\ predictAirportZoneEntry(plane, safeHeading, apt, 6).willEnter
          THEN LET away == findHeadingAwayFromAirport(plane, apt)
               IN  IF ~predictCollision(plane, away, allPlanes, Undefined, Undefined, 8).willCollide
                   THEN [plane EXCEPT !.heading = away]
                   ELSE plane
          ELSE [plane EXCEPT !.heading = safeHeading]

\* case 'turn'. applyCommand calls the forecaster without canvas dimensions.
applyTurn(plane, command, apt, allPlanes) ==
    IF plane.status = "approaching" THEN plane
    ELSE IF command.value = Undefined THEN plane
    ELSE
      LET requested  == normalizeAngle(command.value)
          prediction == predictCollision(plane, requested, allPlanes, Undefined, Undefined, 8)
          safeHeading == IF prediction.willCollide
                         THEN findSafeHeading(plane, requested, allPlanes, Undefined, Undefined)
                         ELSE requested
      IN  IF safeHeading = Null THEN plane
          ELSE
            IF plane.status = "flying"
               /\ predictAirportZoneEntry(plane, safeHeading, apt, 6).willEnter
            THEN LET away == findHeadingAwayFromAirport(plane, apt)
                 IN  IF ~predictCollision(plane, away, allPlanes, Undefined, Undefined, 8).willCollide
                     THEN [plane EXCEPT !.heading = away]
                     ELSE plane
            ELSE [plane EXCEPT !.heading = safeHeading]

\* applySpeed with a slip: the lower limit of the range is not applied.
applySpeed_NoFloor(plane, command) ==
    IF command.value = Undefined THEN plane
    ELSE [plane EXCEPT !.speed = Min2(MaxSpeed, command.value)]

\* case 'speed'
applySpeed(plane, command) ==
    IF command.value = Undefined THEN plane
    ELSE [plane EXCEPT !.speed = Max2(MinSpeed, Min2(MaxSpeed, command.value))]

\* applyApproach with a slip: the speed is not lowered to the approach ceiling.
applyApproach_NoClamp(plane, apt) ==
    IF isInApproachZone(plane.position, apt.runwayStart, apt.runwayEnd, apt.runwayWidth)
    THEN [plane EXCEPT !.status = "approaching"]
    ELSE plane

\* case 'approach'
applyApproach(plane, apt) ==
    IF isInApproachZone(plane.position, apt.runwayStart, apt.runwayEnd, apt.runwayWidth)
    THEN [plane EXCEPT !.status = "approaching", !.speed = Min2(plane.speed, ApproachSpeed)]
    ELSE plane

\* applyHold with a slip: the heading always turns by the full step and is
\* never set to the holding heading itself.
applyHold_NoSnap(plane, apt) ==
    IF plane.status = "approaching" THEN plane
    ELSE IF predictAirportZoneEntry(plane, plane.heading, apt, 6).willEnter
    THEN [plane EXCEPT !.heading = findHeadingAwayFromAirport(plane, apt),
                       !.speed = Max2(MinSpeed, (plane.speed * 7) \div 10)]
    ELSE LET diff == HoldHeading - plane.heading
         IN  [plane EXCEPT
                !.heading = normalizeAngle(plane.heading
                                           + (IF diff > 0 THEN HoldTurn ELSE -HoldTurn)),
                !.speed = Max2(HoldMinSpeed, (plane.speed * 8) \div 10)]

\* applyHold with a slip: the status is not looked at, so an approaching plane
\* is put in the holding pattern too.
applyHold_Approaching(plane, apt) ==
    IF predictAirportZoneEntry(plane, plane.heading, apt, 6).willEnter
    THEN [plane EXCEPT !.heading = findHeadingAwayFromAirport(plane, apt),
                       !.speed = Max2(MinSpeed, (plane.speed * 7) \div 10)]
    ELSE LET diff == HoldHeading - plane.heading
         IN  [plane EXCEPT
                !.heading = IF Abs(diff) > HoldTurn
                            THEN normalizeAngle(plane.heading
                                                + (IF diff > 0 THEN HoldTurn ELSE -HoldTurn))
                            ELSE HoldHeading,
                !.speed = Max2(HoldMinSpeed, (plane.speed * 8) \div 10)]

\* applyHold with a slip: the slowed speed has no lower limit in either branch.
applyHold_NoFloor(plane, apt) ==
    IF plane.status = "approaching" THEN plane
    ELSE IF predictAirportZoneEntry(plane, plane.heading, apt, 6).willEnter
    THEN [plane EXCEPT !.heading = findHeadingAwayFromAirport(plane, apt),
                       !.speed = (plane.speed * 7) \div 10]
    ELSE LET diff == HoldHeading - plane.heading
         IN  [plane EXCEPT
                !.heading = IF Abs(diff) > HoldTurn
                            THEN normalizeAngle(plane.heading
                                                + (IF diff > 0 THEN HoldTurn ELSE -HoldTurn))
                            ELSE HoldHeading,
                !.speed = (plane.speed * 8) \div 10]

\* case 'hold'
applyHold(plane, apt) ==
    IF plane.status = "approaching" THEN plane
    ELSE IF predictAirportZoneEntry(plane, plane.heading, apt, 6).willEnter
    THEN [plane EXCEPT !.heading = findHeadingAwayFromAirport(plane, apt),
                       !.speed = Max2(MinSpeed, (plane.speed * 7) \div 10)]
    ELSE LET diff == HoldHeading - plane.heading
         IN  [plane EXCEPT
                !.heading = IF Abs(diff) > HoldTurn
                            THEN normalizeAngle(plane.heading
                                                + (IF diff > 0 THEN HoldTurn ELSE -HoldTurn))
                            ELSE HoldHeading,
                !.speed = Max2(HoldMinSpeed, (plane.speed * 8) \div 10)]

applyCommand(plane, command, apt, allPlanes) ==
    CASE command.action = "turn"     -> applyTurn(plane, command, apt, allPlanes)
      [] command.action = "speed"    -> applySpeed(plane, command)
      [] command.action = "approach" -> applyApproach(plane, apt)
      [] command.action = "hold"     -> applyHold(plane, apt)
      [] OTHER                       -> plane

----------------------------------------------------------------------------
(* Simulation stepper *)

LandingTolerance == 25
LandingSpeed == 2000
MaxCorrection == 2
WrapMargin == 50

Sign(n) == IF n > 0 THEN 1 ELSE IF n < 0 THEN -1 ELSE 0

\* checkLanding with a slip: the speed is compared with the approach speed
\* ceiling instead of the landing threshold.
checkLanding_BelowApproachSpeed(plane, apt) ==
    IF plane.status = "landed" \/ plane.status = "crashed" THEN plane
    ELSE
      LET onRunway == isOnRunway(plane.position, apt.runwayStart, apt.runwayEnd,
                                 apt.runwayWidth, TRUE)
          headingDiff == Abs(angleDifference(plane.heading, apt.runwayHeading))
      IN  IF onRunway /\ plane.status = "approaching"
             /\ headingDiff < LandingTolerance /\ plane.speed < ApproachSpeed
          THEN [plane EXCEPT !.status = "landed", !.speed = 0]
          ELSE plane

\* checkLanding with a slip: the heading is not compared with the runway heading.
checkLanding_NoAlignment(plane, apt) ==
    IF plane.status = "landed" \/ plane.status = "crashed" THEN plane
    ELSE
      LET onRunway == isOnRunway(plane.position, apt.runwayStart, apt.runwayEnd,
                                 apt.runwayWidth, TRUE)
      IN  IF onRunway /\ plane.status = "approaching" /\ plane.speed < LandingSpeed
          THEN [plane EXCEPT !.status = "landed", !.speed = 0]
          ELSE plane

checkLanding(plane, apt) ==
    IF plane.status = "landed" \/ plane.status = "crashed" THEN plane
    ELSE
      LET onRunway == isOnRunway(plane.position, apt.runwayStart, apt.runwayEnd,
                                 apt.runwayWidth, TRUE)
          headingDiff == Abs(angleDifference(plane.heading, apt.runwayHeading))
      IN  IF onRunway /\ plane.status = "approaching"
             /\ headingDiff < LandingTolerance /\ plane.speed < LandingSpeed
          THEN [plane EXCEPT !.status = "landed", !.speed = 0]
          ELSE plane

\* The heading from a position to the runway centre (targetHeading).
TargetHeading(position, apt) ==
    LET runwayCenter == [x |-> (apt.runwayStart.x + apt.runwayEnd.x) \div 2,
                         y |-> (apt.runwayStart.y + apt.runwayEnd.y) \div 2]
    IN  normalizeAngle(Atan2Deg(runwayCenter.y - position.y, runwayCenter.x - position.x))

\* CorrectHeading with a slip: the whole bearing error is corrected at once.
CorrectHeading_Unbounded(plane, apt) ==
    LET headingDiff == angleDifference(plane.heading, TargetHeading(plane.position, apt))
    IN  IF Abs(headingDiff) > 1
        THEN normalizeAngle(plane.heading + headingDiff)
        ELSE plane.heading

\* The auto-correction of an approaching plane's heading toward the runway centre.
CorrectHeading(plane, apt) ==
    LET runwayCenter == [x |-> (apt.runwayStart.x + apt.runwayEnd.x) \div 2,
                         y |-> (apt.runwayStart.y + apt.runwayEnd.y) \div 2]
        dx == runwayCenter.x - plane.position.x
        dy == runwayCenter.y - plane.position.y
        targetHeading == normalizeAngle(Atan2Deg(dy, dx))
        headingDiff == angleDifference(plane.heading, targetHeading)
    IN  IF Abs(headingDiff) > 1
        THEN normalizeAngle(plane.heading
                            + Sign(headingDiff) * Min2(Abs(headingDiff), MaxCorrection))
        ELSE plane.heading

\* Keep in bounds (wrap around): the four tests in the order of the code.
WrapPosition(pos, canvasWidth, canvasHeight) ==
    LET m  == WrapMargin * PosScale
        x1 == IF pos.x < -m THEN canvasWidth + m ELSE pos.x
        x2 == IF x1 > canvasWidth + m THEN -m ELSE x1
        y1 == IF pos.y < -m THEN canvasHeight + m ELSE pos.y
        y2 == IF y1 > canvasHeight + m THEN -m ELSE y1
    IN  [x |-> x2, y |-> y2]

\* MovePlane with a slip: only landed planes are skipped, crashed ones move on.
MovePlane_Crashed(plane, apt, dt) ==
    IF plane.status = "landed" THEN plane
    ELSE
      LET heading == IF plane.status = "approaching"
                     THEN CorrectHeading(plane, apt) ELSE plane.heading
          newPosition == movePosition(plane.position, heading, Travel(plane.speed, dt))
      IN  [plane EXCEPT !.heading = heading,
                        !.position = WrapPosition(newPosition, canvasSize.width * PosScale,
                                                  canvasSize.height * PosScale)]

\* Update plane positions: the first map of updateGame, for one plane.
\* dt is deltaTime / 16.67, in frames.
MovePlane(plane, apt, dt) ==
    IF plane.status = "landed" \/ plane.status = "crashed" THEN plane
    ELSE
      LET heading == IF plane.status = "approaching"
                     THEN CorrectHeading(plane, apt) ELSE plane.heading
          newPosition == movePosition(plane.position, heading, Travel(plane.speed, dt))
      IN  [plane EXCEPT !.heading = heading,
                        !.position = WrapPosition(newPosition, canvasSize.width * PosScale,
                                                  canvasSize.height * PosScale)]

\* CollisionScan with a slip: newCollisions is raised once for each of the two
\* planes of a pair.
RECURSIVE CollisionScan_CountsPlanes(_, _, _)
CollisionScan_CountsPlanes(s, i, j) ==
    IF i > Len(s.planes) THEN s
    ELSE IF j > Len(s.planes) THEN CollisionScan_CountsPlanes(s, i + 1, i + 2)
    ELSE IF checkCollision(s.planes[i], s.planes[j])
            /\ s.planes[i].status # "crashed" /\ s.planes[j].status # "crashed"
         THEN CollisionScan_CountsPlanes(
                [planes |-> [s.planes EXCEPT ![i].status = "crashed",
                                             ![j].status = "crashed"],
                 collisions |-> s.collisions + 2], i, j + 1)
         ELSE CollisionScan_CountsPlanes(s, i, j + 1)

\* Check for collisions: the loops over i < j; s is [planes, collisions].
RECURSIVE CollisionScan(_, _, _)
CollisionScan(s, i, j) ==
    IF i > Len(s.planes) THEN s
    ELSE IF j > Len(s.planes) THEN CollisionScan(s, i + 1, i + 2)
    ELSE IF checkCollision(s.planes[i], s.planes[j])
            /\ s.planes[i].status # "crashed" /\ s.planes[j].status # "crashed"
         THEN CollisionScan(
                [planes |-> [s.planes EXCEPT ![i].status = "crashed",
                                             ![j].status = "crashed"],
                 collisions |-> s.collisions + 1], i, j + 1)
         ELSE CollisionScan(s, i, j + 1)

\* IncursionCrash with a slip: the status is not required to be flying, so an
\* approaching plane over the airport is crashed too.
IncursionCrash_AnyStatus(plane, apt) ==
    (plane.status = "flying" \/ plane.status = "approaching")
    /\ isOverAirport(plane.position, apt.runwayStart, apt.runwayEnd, apt.runwayWidth)

\* Check for planes flying over airport, for one plane.
IncursionCrash(plane, apt) ==
    plane.status = "flying"
    /\ isOverAirport(plane.position, apt.runwayStart, apt.runwayEnd, apt.runwayWidth)

IncursionScan(ps, apt) ==
    [k \in 1..Len(ps) |->
        IF IncursionCrash(ps[k], apt) THEN [ps[k] EXCEPT !.status = "crashed"] ELSE ps[k]]

\* RemoveLanded with a slip: every terminal plane is filtered out.
RECURSIVE RemoveLanded_AndCrashed(_)
RemoveLanded_AndCrashed(ps) ==
    IF ps = <<>> THEN <<>>
    ELSE IF Head(ps).status # "landed" /\ Head(ps).status # "crashed"
         THEN <<Head(ps)>> \o RemoveLanded_AndCrashed(Tail(ps))
         ELSE RemoveLanded_AndCrashed(Tail(ps))

\* The elements of a sequence that are not landed, in order (Array.filter).
RECURSIVE RemoveLanded(_)
RemoveLanded(ps) ==
    IF ps = <<>> THEN <<>>
    ELSE IF Head(ps).status # "landed"
         THEN <<Head(ps)>> \o RemoveLanded(Tail(ps))
         ELSE RemoveLanded(Tail(ps))

Count(ps, status) == Cardinality({k \in 1..Len(ps) : ps[k].status = status})

\* deltaTime of a call, in frames of 16.67 ms.
DeltaFrames == {100}

\* updateGame with a slip: the tick runs whether the session is paused or not.
updateGame_IgnoresPause(dt) ==
    LET moved   == [k \in 1..Len(planes) |-> MovePlane(planes[k], airport, dt)]
        scan    == CollisionScan([planes |-> moved, collisions |-> collisions], 1, 2)
        zoned   == IncursionScan(scan.planes, airport)
        newCollisions == scan.collisions
            + Cardinality({k \in 1..Len(zoned) :
                             IncursionCrash(scan.planes[k], airport)})
        checked == [k \in 1..Len(zoned) |-> checkLanding(zoned[k], airport)]
        newLandings == Count(checked, "landed")
    IN  /\ ticks < MaxTicks
        /\ ticks' = ticks + 1
        /\ planes' = RemoveLanded(checked)
        /\ collisions' = newCollisions
        /\ landings' = landings + newLandings
        /\ gameTime' = gameTime + dt
        /\ UNCHANGED <<aiRequest, isPaused, canvasSize, planeCounter, aiCalls, spawns>>
        /\ last' = [op |-> "tick", paused |-> isPaused, pre |-> planes,
                    moved |-> moved, scanned |-> scan.planes,
                    scanCollisions |-> scan.collisions, checked |-> checked,
                    collisions |-> collisions, landings |-> landings,
                    gameTime |-> gameTime]

updateGame(dt) ==
    IF isPaused
    THEN /\ UNCHANGED <<aiRequest, planes, isPaused, collisions, landings, gameTime, canvasSize,
                         planeCounter, ticks, aiCalls, spawns>>
         /\ last' = [op |-> "tick", paused |-> TRUE, pre |-> planes,
                     collisions |-> collisions, landings |-> landings,
                     gameTime |-> gameTime]
    ELSE LET moved   == [k \in 1..Len(planes) |-> MovePlane(planes[k], airport, dt)]
             scan    == CollisionScan([planes |-> moved, collisions |-> collisions], 1, 2)
             zoned   == IncursionScan(scan.planes, airport)
             newCollisions == scan.collisions
                 + Cardinality({k \in 1..Len(zoned) :
                                  IncursionCrash(scan.planes[k], airport)})
             checked == [k \in 1..Len(zoned) |-> checkLanding(zoned[k], airport)]
             newLandings == Count(checked, "landed")
         IN  /\ ticks < MaxTicks
             /\ ticks' = ticks + 1
             /\ planes' = RemoveLanded(checked)
             /\ collisions' = newCollisions
             /\ landings' = landings + newLandings
             /\ gameTime' = gameTime + dt
             /\ UNCHANGED <<aiRequest, isPaused, canvasSize, planeCounter, aiCalls, spawns>>
             /\ last' = [op |-> "tick", paused |-> FALSE, pre |-> planes,
                         moved |-> moved, scanned |-> scan.planes,
                         scanCollisions |-> scan.collisions, checked |-> checked,
                         collisions |-> collisions, landings |-> landings,
                         gameTime |-> gameTime]

Tick == \E dt \in DeltaFrames : updateGame(dt)

----------------------------------------------------------------------------
(* Applying a decision response: the state update of callAI *)

TurnValues == {0, 90}
SpeedValues == {100, 500, 900}

Commands ==
    [planeId : 1..MaxPlanes, action : {"turn"}, value : TurnValues]
    \cup [planeId : 1..MaxPlanes, action : {"speed"}, value : SpeedValues]
    \cup [planeId : 1..MaxPlanes, action : {"approach", "hold"}, value : {Undefined}]

\* response.commands.find(c => c.planeId === plane.id): index of the first match, 0 if none.
FindCommand(commands, id) ==
    IF \E k \in 1..Len(commands) : commands[k].planeId = id
    THEN CHOOSE k \in 1..Len(commands) :
            /\ commands[k].planeId = id
            /\ \A m \in 1..(k - 1) : commands[m].planeId # id
    ELSE 0

\* ApplyCommands with a slip: the first command of the batch is applied to
\* every plane of the roster, whatever its id.
ApplyCommands_Broadcast(prevPlanes, commands) ==
    [k \in 1..Len(prevPlanes) |->
        applyCommand(prevPlanes[k], commands[1], airport, prevPlanes)]

ApplyCommands(prevPlanes, commands) ==
    [k \in 1..Len(prevPlanes) |->
        LET c == FindCommand(commands, prevPlanes[k].id)
        IN  IF c # 0
            THEN applyCommand(prevPlanes[k], commands[c], airport, prevPlanes)
            ELSE prevPlanes[k]]

\* The commands of a batch that callAI reports as failed. While the commands
\* are applied nothing throws, so the catch that writes "Error: ..." to the
\* log is not reached: a command that matches no plane is never looked at by
\* the map over prev.planes, and no command is reported.
CommandErrors(prevPlanes, commands) == {k \in 1..Len(commands) : FALSE}

AiResponse(commands) ==
    /\ aiCalls < MaxAiCalls
    /\ Len(commands) > 0
    /\ aiCalls' = aiCalls + 1
    /\ planes' = ApplyCommands(planes, commands)
    /\ last' = [op |-> "commands", commands |-> commands, pre |-> planes,
                errors |-> CommandErrors(planes, commands)]
    /\ UNCHANGED <<aiRequest, isPaused, collisions, landings, gameTime, canvasSize, planeCounter,
                   ticks, spawns>>

CallAI == \E c \in Commands : AiResponse(<<c>>)

togglePause ==
    /\ isPaused' = ~isPaused
    /\ UNCHANGED <<aiRequest, planes, collisions, landings, gameTime, canvasSize, planeCounter,
                   ticks, aiCalls, spawns, last>>

----------------------------------------------------------------------------
(* Spawning *)

MinPlanes == 1
ConfigMaxPlanes == 1
SpawnMargin == 50

\* generateSpawnPosition: a point of the top or bottom edge (x up to 0.4 of the
\* width) or of the left edge, at the margin. The middle of the left edge is kept.
SpawnPositions(canvasWidth, canvasHeight) ==
    {[x |-> SpawnMargin * PosScale, y |-> canvasHeight \div 2]}

\* generateCallsign: one of the callsigns it may draw.
Callsign == "AA100"

\* COLORS.length; a colour is its index in COLORS.
ColorCount == 8

\* randomInRange(0.3, 0.6): the ends of the range.
SpawnSpeeds == {300, 599}

\* createPlane: after at most ten retries the last position drawn is used
\* whether it is safe or not, so every spawn position is a possible outcome.
createPlane(counter, position, speed) ==
    [id |-> counter, position |-> position, heading |-> 0, speed |-> speed,
     status |-> "flying", callsign |-> Callsign, color |-> counter % ColorCount]

MIN_SPAWN_DISTANCE == 120
MIN_AIRPORT_DISTANCE == 200
MaxAttempts == 10

\* isSafeSpawnPosition with a slip: crashed and landed planes are not skipped.
isSafeSpawnPosition_CountsTerminal(position, existingPlanes, apt) ==
    /\ \A k \in 1..Len(existingPlanes) :
          ~DistanceLess(position, existingPlanes[k].position, MIN_SPAWN_DISTANCE)
    /\ ~DistanceLess(position, apt.position, MIN_AIRPORT_DISTANCE)

isSafeSpawnPosition(position, existingPlanes, apt) ==
    /\ \A k \in 1..Len(existingPlanes) :
          \/ existingPlanes[k].status = "crashed"
          \/ existingPlanes[k].status = "landed"
          \/ ~DistanceLess(position, existingPlanes[k].position, MIN_SPAWN_DISTANCE)
    /\ ~DistanceLess(position, apt.position, MIN_AIRPORT_DISTANCE)

\* The while loop of createPlane over the positions generateSpawnPosition
\* returns, in the order drawn: draws[1] is the draw before the loop and
\* draws[attempts + 1] the current one. The result is the final `attempts`.
RECURSIVE SpawnAttempts(_, _, _, _)
SpawnAttempts(draws, existingPlanes, apt, attempts) ==
    IF ~isSafeSpawnPosition(draws[attempts + 1], existingPlanes, apt)
       /\ attempts < MaxAttempts
    THEN SpawnAttempts(draws, existingPlanes, apt, attempts + 1)
    ELSE attempts

\* The spawn effect of useGame: nothing while paused; otherwise one plane is
\* added when the planes that are not crashed are fewer than minPlanes, or,
\* once the spawn interval has passed, fewer than maxPlanes.
Spawn ==
    /\ ~isPaused
    /\ spawns < MaxSpawns
    /\ LET activeCount == Cardinality({k \in 1..Len(planes) : planes[k].status # "crashed"})
       IN  activeCount < MinPlanes \/ activeCount < ConfigMaxPlanes
    /\ \E position \in SpawnPositions(canvasSize.width * PosScale, canvasSize.height * PosScale),
          speed \in SpawnSpeeds :
          planes' = Append(planes, createPlane(planeCounter + 1, position, speed))
    /\ planeCounter' = planeCounter + 1
    /\ spawns' = spawns + 1
    /\ last' = [op |-> "spawn", pre |-> planes]
    /\ UNCHANGED <<aiRequest, isPaused, collisions, landings, gameTime, canvasSize, ticks, aiCalls>>

----------------------------------------------------------------------------
(* Reset and canvas resize *)

InitialPlaneCount == 4

\* Where createPlane puts the k-th plane of initGame: one of the positions
\* generateSpawnPosition may draw for it, on the left edge, the planes spread
\* over the height so that every first draw is a safe one.
InitialPosition(k, canvasHeight) ==
    [x |-> SpawnMargin * PosScale,
     y |-> SpawnMargin * PosScale
           + k * ((canvasHeight - 2 * SpawnMargin * PosScale) \div (InitialPlaneCount + 1))]

\* The rosters the loop of initGame may build: createPlane is called
\* initialPlaneCount times after resetPlaneCounter, so the ids are 1..n.
\* Of the speeds the planes may draw, those where all draw the same are kept.
InitialRosters(canvasWidth, canvasHeight) ==
    {[k \in 1..InitialPlaneCount |->
         createPlane(k, InitialPosition(k, canvasHeight), speed)] :
       speed \in SpawnSpeeds}

\* initGame with a slip: the collision counter is carried over.
initGame_KeepsCollisions(size) ==
    /\ planes' \in InitialRosters(size.width * PosScale, size.height * PosScale)
    /\ planeCounter' = InitialPlaneCount
    /\ isPaused' = TRUE
    /\ collisions' = collisions
    /\ landings' = 0
    /\ gameTime' = 0
    /\ last' = [op |-> "reset",
                crashed |-> \E k \in 1..Len(planes) : planes[k].status = "crashed"]
    /\ UNCHANGED <<aiRequest, ticks, aiCalls, spawns>>

\* initGame with a slip: the landing counter is carried over.
initGame_KeepsLandings(size) ==
    /\ planes' \in InitialRosters(size.width * PosScale, size.height * PosScale)
    /\ planeCounter' = InitialPlaneCount
    /\ isPaused' = TRUE
    /\ collisions' = 0
    /\ landings' = landings
    /\ gameTime' = 0
    /\ last' = [op |-> "reset",
                crashed |-> \E k \in 1..Len(planes) : planes[k].status = "crashed"]
    /\ UNCHANGED <<aiRequest, ticks, aiCalls, spawns>>

\* initGame as built for a canvas of the given size.
initGame(size) ==
    /\ planes' \in InitialRosters(size.width * PosScale, size.height * PosScale)
    /\ planeCounter' = InitialPlaneCount
    /\ isPaused' = TRUE
    /\ collisions' = 0
    /\ landings' = 0
    /\ gameTime' = 0
    /\ last' = [op |-> "reset",
                crashed |-> \E k \in 1..Len(planes) : planes[k].status = "crashed"]
    /\ UNCHANGED <<aiRequest, ticks, aiCalls, spawns>>

\* The Reset button of App.
Reset ==
    /\ canvasSize' = canvasSize
    /\ initGame(canvasSize)

\* The sizes the canvas may take.
CanvasSizes == {[width |-> CanvasWidth, height |-> CanvasHeight],
                [width |-> 1000, height |-> CanvasHeight]}

\* handleResize of App: useGame is rendered with the new size, its effect on
\* canvasWidth, canvasHeight rebuilds the airport, and initGame, a callback
\* that depends on canvasWidth and canvasHeight, is a new function, so the
\* effect of App that depends on initGame runs it: the game is reset.
handleResize(size) ==
    /\ size # canvasSize
    /\ canvasSize' = size
    /\ initGame(size)

Resize == \E size \in CanvasSizes : handleResize(size)

----------------------------------------------------------------------------
(* Initial rosters *)

Plane(id, x, y, heading, speed) ==
    [id |-> id, position |-> [x |-> x * PosScale, y |-> y * PosScale],
     heading |-> heading, speed |-> speed, status |-> "flying",
     callsign |-> Callsign, color |-> id % ColorCount]

\* Where the k-th plane of the roster may be when the model starts: all are
\* flying, outside the exclusion zone and at least the collision distance apart.
StartOf(k) ==
    CASE k = 1 -> {Plane(1, 700, 400, 0, 400), Plane(1, 765, 400, 0, 400),
                   Plane(1, 769, 365, 40, 400)}
      [] k = 2 -> {Plane(2, 670, 400, 0, 800), Plane(2, 690, 480, 180, 150),
                   Plane(2, 735, 400, 0, 800)}
      [] k = 3 -> {Plane(3, 715, 455, 270, 800)}
      [] OTHER -> {Plane(k, 100 * k, 100, 0, 300)}

Rosters ==
    UNION {{r \in [1..n -> UNION {StartOf(k) : k \in 1..n}] :
                \A k \in 1..n : r[k] \in StartOf(k)} : n \in 1..MaxPlanes}

Init ==
    /\ planes \in Rosters
    /\ isPaused = TRUE
    /\ collisions = 0
    /\ landings = 0
    /\ gameTime = 0
    /\ canvasSize = [width |-> CanvasWidth, height |-> CanvasHeight]
    /\ planeCounter = Len(planes)
    /\ ticks = 0
    /\ spawns = 0
    /\ aiCalls = 0
    /\ aiRequest = <<>>
    /\ last = [op |-> "init"]

Next == Tick \/ CallAI \/ togglePause \/ Resize \/ Spawn \/ Reset

Spec == Init /\ [][Next]_vars

----------------------------------------------------------------------------
(* Command batches applied to a roster in any state of the game *)

StatusPlane(id, x, y, heading, speed, status) ==
    [Plane(id, x, y, heading, speed) EXCEPT !.status = status]

\* States of the plane a batch commands: flying outside the exclusion zone
\* (in the approach corridor, beside it, far from the airport), approaching
\* in the corridor or over the runway, crashed anywhere.
CommandedPlanes ==
    {StatusPlane(1, xy[1], xy[2], h, v, "flying") :
        xy \in {<<700, 400>>, <<690, 480>>, <<300, 200>>},
        h \in {0, 40, 194}, v \in {150, 400, 800}}
    \cup {StatusPlane(1, xy[1], xy[2], h, v, "approaching") :
        xy \in {<<700, 400>>, <<850, 400>>},
        h \in {0, 40, 194}, v \in {150, 400, 800}}
    \cup {StatusPlane(1, xy[1], xy[2], h, v, "crashed") :
        xy \in {<<700, 400>>, <<690, 480>>, <<850, 400>>},
        h \in {0, 40, 194}, v \in {150, 400, 800}}

\* The roster is the commanded plane alone or with a second, flying plane
\* that comes toward the corridor.
CommandRosters ==
    {<<p>> : p \in CommandedPlanes}
    \cup {<<p, Plane(2, 760, 400, 180, 400)>> : p \in CommandedPlanes}

\* A canvas so narrow that the left edge, where planes spawn, lies inside the
\* exclusion zone of the airport (runway centre at three quarters of the width).
NarrowCanvas == [width |-> 200, height |-> CanvasHeight]

\* On the narrow canvas: the one plane createPlane has put on the left edge
\* beside the runway when none of its draws was a safe one.
NarrowRosters ==
    {<<createPlane(1, [x |-> SpawnMargin * PosScale,
                       y |-> (NarrowCanvas.height * PosScale) \div 2], speed)>> :
       speed \in SpawnSpeeds}

CommandInit ==
    /\ \/ /\ planes \in CommandRosters
          /\ canvasSize = [width |-> CanvasWidth, height |-> CanvasHeight]
       \/ /\ planes \in NarrowRosters
          /\ canvasSize = NarrowCanvas
    /\ isPaused \in BOOLEAN
    /\ collisions = 0
    /\ landings = 0
    /\ gameTime = 0
    /\ planeCounter = Len(planes)
    /\ ticks = 0
    /\ spawns = 0
    /\ aiCalls = 0
    /\ aiRequest = <<>>
    /\ last = [op |-> "init"]

SpecCommand == CommandInit /\ [][CallAI]_vars

----------------------------------------------------------------------------
(* Hold commands applied again and again to one flying plane *)

\* The plane is far from the airport, in the approach corridor heading for the
\* runway, or above the runway threshold.
HeldPlanes ==
    {Plane(1, xy[1], xy[2], h, v) :
        xy \in {<<300, 200>>, <<700, 400>>, <<800, 300>>},
        h \in {0, 90, 165, 180, 194, 195, 270, 359}, v \in {150, 800}}

HoldInit ==
    /\ planes \in {<<p>> : p \in HeldPlanes}
    /\ isPaused = FALSE
    /\ collisions = 0
    /\ landings = 0
    /\ gameTime = 0
    /\ canvasSize = [width |-> CanvasWidth, height |-> CanvasHeight]
    /\ planeCounter = Len(planes)
    /\ ticks = 0
    /\ spawns = 0
    /\ aiCalls = 0
    /\ aiRequest = <<>>
    /\ last = [op |-> "init"]

\* One more batch [{planeId: 1, action: 'hold'}]. last.run counts the holds of
\* the unbroken run of holds that did not take the emergency branch, this one
\* included; it is 0 when this hold took the emergency branch.
HoldAgain ==
    LET commands == <<[planeId |-> 1, action |-> "hold", value |-> Undefined]>>
        normal   == ~predictAirportZoneEntry(planes[1], planes[1].heading, airport, 6).willEnter
    IN  /\ aiCalls < MaxHolds
        /\ aiCalls' = aiCalls + 1
        /\ planes' = ApplyCommands(planes, commands)
        /\ last' = [op |-> "commands", commands |-> commands, pre |-> planes,
                    run |-> IF ~normal THEN 0
                            ELSE IF last.op = "init" THEN 1 ELSE last.run + 1]
        /\ UNCHANGED <<aiRequest, isPaused, collisions, landings, gameTime, canvasSize, planeCounter,
                       ticks, spawns>>

SpecHold == HoldInit /\ [][HoldAgain]_vars

----------------------------------------------------------------------------
(* Batches of two commands applied to rosters of several planes *)

BatchTurnValues == {90, 270}
BatchSpeedValues == {100, 500}

BatchCommands ==
    [planeId : 1..MaxPlanes, action : {"turn"}, value : BatchTurnValues]
    \cup [planeId : 1..MaxPlanes, action : {"speed"}, value : BatchSpeedValues]
    \cup [planeId : 1..MaxPlanes, action : {"approach", "hold"}, value : {Undefined}]

\* Two planes flying east, one 200 px below the other, far from the airport;
\* the same with a third plane in the approach corridor; an approaching plane
\* in the corridor with a crashed plane and a flying plane elsewhere.
BatchRosters ==
    {<<Plane(1, 300, 200, 0, 800), Plane(2, 300, 400, 0, 800)>>,
     <<Plane(1, 300, 200, 0, 800), Plane(2, 300, 400, 0, 800),
       Plane(3, 700, 400, 0, 400)>>,
     <<StatusPlane(1, 700, 400, 0, 400, "approaching"),
       StatusPlane(2, 500, 600, 90, 300, "crashed"),
       Plane(3, 300, 200, 0, 600)>>}

BatchInit ==
    /\ planes \in BatchRosters
    /\ isPaused \in BOOLEAN
    /\ collisions = 0
    /\ landings = 0
    /\ gameTime = 0
    /\ canvasSize = [width |-> CanvasWidth, height |-> CanvasHeight]
    /\ planeCounter = Len(planes)
    /\ ticks = 0
    /\ spawns = 0
    /\ aiCalls = 0
    /\ aiRequest = <<>>
    /\ last = [op |-> "init"]

CallAIBatch == \E c1, c2 \in BatchCommands : AiResponse(<<c1, c2>>)

SpecBatch == BatchInit /\ [][CallAIBatch]_vars

----------------------------------------------------------------------------
(* One call of createPlane with its draws of spawn positions *)

\* Positions generateSpawnPosition may return: the middle of the left edge and
\* the right end of the top edge.
SpawnCandidates(canvasWidth, canvasHeight) ==
    {[x |-> SpawnMargin * PosScale, y |-> canvasHeight \div 2],
     [x |-> (canvasWidth * 4) \div 10, y |-> SpawnMargin * PosScale]}

\* existingPlanes of the call: none; a flying plane beside the left-edge
\* candidate; flying planes beside both candidates; a crashed plane beside the
\* first and a flying one beside the second.
SpawnRosters ==
    {<<>>,
     <<Plane(1, 60, 400, 0, 300)>>,
     <<Plane(1, 60, 400, 0, 300), Plane(2, 480, 100, 90, 300)>>,
     <<StatusPlane(1, 60, 400, 0, 300, "crashed"), Plane(2, 480, 100, 90, 300)>>}

SpawnInit ==
    /\ \/ /\ planes \in SpawnRosters
          /\ canvasSize = [width |-> CanvasWidth, height |-> CanvasHeight]
       \/ /\ planes = <<>>
          /\ canvasSize = NarrowCanvas
    /\ isPaused = FALSE
    /\ collisions = 0
    /\ landings = 0
    /\ gameTime = 0
    /\ planeCounter = Len(planes)
    /\ ticks = 0
    /\ spawns = 0
    /\ aiCalls = 0
    /\ aiRequest = <<>>
    /\ last = [op |-> "init"]

\* planes: [...prev.planes, createPlane(canvasWidth, canvasHeight, prev.planes,
\* prev.airport)], with the positions and the speed the call draws.
SpawnDrawn ==
    /\ last.op = "init"
    /\ \E draws \in [1..(MaxAttempts + 1) ->
                        SpawnCandidates(canvasSize.width * PosScale,
                                        canvasSize.height * PosScale)],
          speed \in SpawnSpeeds :
          LET attempts == SpawnAttempts(draws, planes, airport, 0)
          IN  /\ planes' = Append(planes,
                                  createPlane(planeCounter + 1, draws[attempts + 1], speed))
              /\ last' = [op |-> "createPlane", pre |-> planes, draws |-> draws,
                          attempts |-> attempts]
    /\ planeCounter' = planeCounter + 1
    /\ spawns' = spawns + 1
    /\ UNCHANGED <<aiRequest, isPaused, collisions, landings, gameTime, canvasSize, ticks, aiCalls>>

SpecSpawn == SpawnInit /\ [][SpawnDrawn]_vars

----------------------------------------------------------------------------
(* wrappedDistance and distance applied to pairs of points *)

\* Points, in pixels: on the canvas, and up to 300 px from each other so that
\* a delta may exceed half a canvas and a whole canvas of the sizes below.
PointXs == {0, 40, 120, 300}
PointYs == {0, 60, 300}
CanvasWidths == {100, 240, 800}
CanvasHeights == {100, 400}

\* Math.sqrt(wrapped.dx ** 2 + wrapped.dy ** 2)
wrappedDistance(p1, p2, canvasWidth, canvasHeight) ==
    LET wrapped == getWrappedDelta(p1, p2, canvasWidth, canvasHeight)
    IN  distance([x |-> 0, y |-> 0], [x |-> wrapped.dx, y |-> wrapped.dy])

DistanceInit ==
    /\ planes = <<>>
    /\ isPaused = TRUE
    /\ collisions = 0
    /\ landings = 0
    /\ gameTime = 0
    /\ canvasSize = [width |-> CanvasWidth, height |-> CanvasHeight]
    /\ planeCounter = 0
    /\ ticks = 0
    /\ spawns = 0
    /\ aiCalls = 0
    /\ aiRequest = <<>>
    /\ last \in [op : {"input"},
                 p1 : [x : PointXs, y : PointYs], p2 : [x : PointXs, y : PointYs],
                 width : CanvasWidths, height : CanvasHeights]

\* Both distances of the pair of points drawn, in position units.
MeasureDistance ==
    /\ last.op = "input"
    /\ LET p1 == [x |-> last.p1.x * PosScale, y |-> last.p1.y * PosScale]
           p2 == [x |-> last.p2.x * PosScale, y |-> last.p2.y * PosScale]
           w  == last.width * PosScale
           h  == last.height * PosScale
       IN  last' = [op |-> "wrappedDistance", p1 |-> p1, p2 |-> p2,
                    width |-> w, height |-> h,
                    wrapped |-> wrappedDistance(p1, p2, w, h),
                    plain |-> distance(p1, p2)]
    /\ UNCHANGED <<aiRequest, planes, isPaused, collisions, landings, gameTime, canvasSize,
                   planeCounter, ticks, aiCalls, spawns>>

SpecDistance == DistanceInit /\ [][MeasureDistance]_vars

----------------------------------------------------------------------------
(* normalizeAngle on doubles *)

\* An angle as the double it is: deg + frac * 2^-46 degrees, deg a whole
\* number and frac a few units, of the sign of deg when deg is not 0. The
\* doubles between 256 and 512 are the multiples of 2^-44, which is 4 units;
\* every value below of magnitude under 64 is a double.
UnitsPerUlp == 4

Double(deg, frac) == [deg |-> deg, frac |-> frac]

IsNegative(x) == x.deg < 0 \/ (x.deg = 0 /\ x.frac < 0)

\* x < 360
IsBelow360(x) == x.deg < 360 \/ (x.deg = 360 /\ x.frac < 0)

\* angle % 360: the remainder is exact and has the sign of the angle. A
\* multiple of 360 less a few units leaves 360 less these units.
RemDouble(x) ==
    LET r == JsRem(x.deg, 360)
    IN  IF r = 0 /\ x.deg > 0 /\ x.frac < 0 THEN Double(360, x.frac)
        ELSE IF r = 0 /\ x.deg < 0 /\ x.frac > 0 THEN Double(-360, x.frac)
        ELSE Double(r, x.frac)

\* The sum of two doubles that lies between 256 and 512, rounded to the
\* nearest double, a tie to the one with an even mantissa.
RoundedSum(x, y) ==
    LET deg  == x.deg + y.deg
        frac == x.frac + y.frac
        down == frac - (frac % UnitsPerUlp)
        up   == down + UnitsPerUlp
        near == IF 2 * (frac - down) < UnitsPerUlp THEN down
                ELSE IF 2 * (frac - down) > UnitsPerUlp THEN up
                ELSE IF (down \div UnitsPerUlp) % 2 = 0 THEN down ELSE up
    IN  Double(deg, near)

\* Exact below 256, where the values used here are doubles.
AddDouble(x, y) ==
    IF x.deg + y.deg >= 256 \/ (x.deg + y.deg = 255 /\ x.frac + y.frac > 0)
    THEN RoundedSum(x, y)
    ELSE Double(x.deg + y.deg, x.frac + y.frac)

\* let a = angle % 360; if (a < 0) a += 360; return a;
normalizeAngleDouble(angle) ==
    LET a == RemDouble(angle)
    IN  IF IsNegative(a) THEN AddDouble(a, Double(360, 0)) ELSE a

\* Whole degrees from -720 to 1080, and angles a few units of 2^-46 degree
\* from 0 and from -360.
AngleInputs ==
    {Double(30 * k, 0) : k \in -24..36}
    \cup {Double(d, 0) : d \in {-361, -359, -1, 1, 359, 361}}
    \cup {Double(0, f) : f \in {-5, -4, -3, -2, -1, 1, 2}}
    \cup {Double(-360, -4), Double(-360, -8)}

AngleInit ==
    /\ planes = <<>>
    /\ isPaused = TRUE
    /\ collisions = 0
    /\ landings = 0
    /\ gameTime = 0
    /\ canvasSize = [width |-> CanvasWidth, height |-> CanvasHeight]
    /\ planeCounter = 0
    /\ ticks = 0
    /\ spawns = 0
    /\ aiCalls = 0
    /\ aiRequest = <<>>
    /\ last \in [op : {"input"}, x : AngleInputs]

NormalizeInput ==
    /\ last.op = "input"
    /\ last' = [op |-> "normalizeAngle", x |-> last.x,
                result |-> normalizeAngleDouble(last.x),
                again |-> normalizeAngleDouble(normalizeAngleDouble(last.x))]
    /\ UNCHANGED <<aiRequest, planes, isPaused, collisions, landings, gameTime, canvasSize,
                   planeCounter, ticks, aiCalls, spawns>>

SpecAngle == AngleInit /\ [][NormalizeInput]_vars

----------------------------------------------------------------------------
(* predictCollision and findSafeHeading applied to planes of a roster *)

\* allPlanes of the calls: the rosters of the game and of the batches, two
\* planes flying at each other, and the same with the second plane crashed.
ForecastRosters ==
    Rosters \cup BatchRosters
    \cup {<<Plane(1, 300, 200, 90, 800), Plane(2, 300, 400, 270, 800)>>,
          <<Plane(1, 300, 200, 90, 800),
            StatusPlane(2, 300, 400, 270, 800, "crashed")>>}

\* newHeading, requestedHeading of the calls.
ForecastHeadings == {30 * k : k \in 0..11}

ForecastInit ==
    /\ planes \in ForecastRosters
    /\ isPaused = FALSE
    /\ collisions = 0
    /\ landings = 0
    /\ gameTime = 0
    /\ canvasSize = [width |-> CanvasWidth, height |-> CanvasHeight]
    /\ planeCounter = Len(planes)
    /\ ticks = 0
    /\ spawns = 0
    /\ aiCalls = 0
    /\ aiRequest = <<>>
    /\ last = [op |-> "init"]

\* predictCollision(plane, newHeading, allPlanes, config) as applyCommand
\* calls it, for a plane of the roster.
PredictFor ==
    /\ last.op = "init"
    /\ \E k \in 1..Len(planes), heading \in ForecastHeadings :
          last' = [op |-> "predictCollision", plane |-> k, heading |-> heading,
                   willCollide |-> predictCollision(planes[k], heading, planes,
                                                    Undefined, Undefined, 8).willCollide,
                   timeToCollision |-> timeToCollision(planes[k], heading, planes,
                                                       Undefined, Undefined, 8)]
    /\ UNCHANGED <<aiRequest, planes, isPaused, collisions, landings, gameTime, canvasSize,
                   planeCounter, ticks, aiCalls, spawns>>

\* findSafeHeading(plane, newHeading, allPlanes, config) as applyCommand calls it.
FindSafeFor ==
    /\ last.op = "init"
    /\ \E k \in 1..Len(planes), heading \in ForecastHeadings :
          last' = [op |-> "findSafeHeading", plane |-> k, heading |-> heading,
                   result |-> findSafeHeading(planes[k], heading, planes,
                                              Undefined, Undefined)]
    /\ UNCHANGED <<aiRequest, planes, isPaused, collisions, landings, gameTime, canvasSize,
                   planeCounter, ticks, aiCalls, spawns>>

SpecForecast == ForecastInit /\ [][PredictFor \/ FindSafeFor]_vars

----------------------------------------------------------------------------
(* Ticks of a running session on rosters near the runway and the canvas edges *)

\* A plane cleared to land, short of the runway centre or still in the
\* corridor, aligned with the runway or 30 degrees off.
ClearedPlanes(id) ==
    {StatusPlane(id, x, 400, h, v, "approaching") :
        x \in {700, 880}, h \in {0, 30}, v \in {400, 800}}

\* A flying plane below the exclusion zone that crosses the runway centre line
\* from the south, and one that comes in diagonally behind it.
CrossingPlane(id) == Plane(id, 900, 455, 270, 800)
DiagonalPlane(id) == Plane(id, 930, 470, 225, 800)

\* Two flying planes that leave the canvas toward each other's side: one at
\* the left edge heading west, one at the right edge heading east, at the
\* same height or 300 px apart.
EdgeRosters ==
    {<<Plane(1, 25, 300, 180, v), Plane(2, 1175, y, 0, v)>> :
        v \in {400, 800}, y \in {300, 600}}

\* The ids follow the order of the roster, the order in which createPlane
\* made the planes.
TickRosters ==
    {<<a>> : a \in ClearedPlanes(1)}
    \cup {<<a, CrossingPlane(2)>> : a \in ClearedPlanes(1)}
    \cup {<<CrossingPlane(1), a>> : a \in ClearedPlanes(2)}
    \cup {<<a, CrossingPlane(2), DiagonalPlane(3)>> : a \in ClearedPlanes(1)}
    \cup {<<CrossingPlane(1), DiagonalPlane(2), a>> : a \in ClearedPlanes(3)}
    \cup EdgeRosters

TickInit ==
    /\ planes \in TickRosters
    /\ isPaused = FALSE
    /\ collisions = 0
    /\ landings = 0
    /\ gameTime = 0
    /\ canvasSize = [width |-> CanvasWidth, height |-> CanvasHeight]
    /\ planeCounter = Len(planes)
    /\ ticks = 0
    /\ spawns = 0
    /\ aiCalls = 0
    /\ aiRequest = <<>>
    /\ last = [op |-> "init"]

SpecTick == TickInit /\ [][Tick \/ togglePause]_vars

----------------------------------------------------------------------------
(* Sequences of command batches and ticks on one spawned plane *)

\* A plane as createPlane makes it (flying, speed drawn from the spawn range)
\* that has flown into the approach corridor (the middle of it, its end before
\* the runway), or flies toward the runway south of the corridor.
SequenceRosters ==
    {<<Plane(1, xy[1], xy[2], 0, v)>> :
        xy \in {<<700, 400>>, <<765, 400>>, <<690, 480>>}, v \in SpawnSpeeds}

SequenceInit ==
    /\ planes \in SequenceRosters
    /\ isPaused = FALSE
    /\ collisions = 0
    /\ landings = 0
    /\ gameTime = 0
    /\ canvasSize = [width |-> CanvasWidth, height |-> CanvasHeight]
    /\ planeCounter = Len(planes)
    /\ ticks = 0
    /\ spawns = 0
    /\ aiCalls = 0
    /\ aiRequest = <<>>
    /\ last = [op |-> "init"]

\* One more response with a single command for the plane, after any number
\* of earlier ones.
CommandAgain ==
    \E c \in {c \in Commands : c.planeId = 1} :
        /\ aiCalls < MaxCommands
        /\ aiCalls' = aiCalls + 1
        /\ planes' = ApplyCommands(planes, <<c>>)
        /\ last' = [op |-> "commands", commands |-> <<c>>, pre |-> planes,
                    errors |-> CommandErrors(planes, <<c>>)]
        /\ UNCHANGED <<aiRequest, isPaused, collisions, landings, gameTime, canvasSize,
                       planeCounter, ticks, spawns>>

SpecSequence == SequenceInit /\ [][CommandAgain \/ Tick]_vars

----------------------------------------------------------------------------
(* Frame by frame flight of a roster that no command, spawn or resize touches *)

\* secondsAhead of predictCollision when the caller gives none.
ForecastSeconds == 8

\* A flying plane at a position given in hundredths of a pixel.
PlaneAt(id, x, y, heading, speed) ==
    [Plane(id, 0, 0, heading, speed) EXCEPT !.position = [x |-> x, y |-> y]]

\* Flying planes only: one that leaves the canvas by the right edge while
\* another flies south along the left edge; two whose tracks cross 56 px
\* apart, and 0 px apart; one that flies at 45 degrees past the south-west
\* corner of the exclusion zone, just inside it or well outside it; one that
\* flies along the zone south of it, and one that heads into it.
FlightRosters ==
    {<<Plane(1, 1150, 300, 0, 800), Plane(2, -40, 200, 90, 800)>>,
     <<Plane(1, 1150, 300, 0, 800), Plane(2, 300, 200, 90, 800)>>,
     <<Plane(1, 300, 200, 0, 800), Plane(2, 500, 320, 270, 800)>>,
     <<Plane(1, 300, 200, 0, 800), Plane(2, 500, 400, 270, 800)>>,
     <<PlaneAt(1, 76950, 44920, 45, 800)>>,
     <<PlaneAt(1, 76950, 46920, 45, 800)>>,
     <<Plane(1, 700, 470, 0, 400)>>,
     <<Plane(1, 700, 400, 0, 400)>>}

FlightInit ==
    /\ planes \in FlightRosters
    /\ isPaused = FALSE
    /\ collisions = 0
    /\ landings = 0
    /\ gameTime = 0
    /\ canvasSize = [width |-> CanvasWidth, height |-> CanvasHeight]
    /\ planeCounter = Len(planes)
    /\ ticks = 0
    /\ spawns = 0
    /\ aiCalls = 0
    /\ aiRequest = <<>>
    /\ last = [op |-> "init"]

\* The body of updateGame for a session that runs: the roster after the
\* movement, after the collision loops and after the landing check, and the
\* roster and counters it returns.
Stepped(dt) ==
    LET moved   == [k \in 1..Len(planes) |-> MovePlane(planes[k], airport, dt)]
        scan    == CollisionScan([planes |-> moved, collisions |-> collisions], 1, 2)
        zoned   == IncursionScan(scan.planes, airport)
        newCollisions == scan.collisions
            + Cardinality({k \in 1..Len(zoned) :
                             IncursionCrash(scan.planes[k], airport)})
        checked == [k \in 1..Len(zoned) |-> checkLanding(zoned[k], airport)]
        newLandings == Count(checked, "landed")
    IN  [moved |-> moved, scanned |-> scan.planes, scanCollisions |-> scan.collisions,
         checked |-> checked, planes |-> RemoveLanded(checked),
         collisions |-> newCollisions, landings |-> landings + newLandings]

\* updateGame called with deltaTime = 16.67, one frame, while the session
\* runs, for as many frames as the collision forecast looks ahead. The
\* history keeps the roster the flight began with.
FrameTick ==
    \E dt \in {1} : \E step \in {Stepped(dt)} :
        /\ ~isPaused
        /\ gameTime < ForecastSeconds * FPS
        /\ ticks' = ticks + 1
        /\ planes' = step.planes
        /\ collisions' = step.collisions
        /\ landings' = step.landings
        /\ gameTime' = gameTime + dt
        /\ UNCHANGED <<aiRequest, isPaused, canvasSize, planeCounter, aiCalls, spawns>>
        /\ last' = [op |-> "tick", paused |-> FALSE, pre |-> planes,
                    moved |-> step.moved, scanned |-> step.scanned,
                    scanCollisions |-> step.scanCollisions, checked |-> step.checked,
                    collisions |-> collisions, landings |-> landings,
                    gameTime |-> gameTime,
                    start |-> IF last.op = "init" THEN planes ELSE last.start]

SpecFlight == FlightInit /\ [][FrameTick]_vars

----------------------------------------------------------------------------
(* A decision request in flight while the session is reset *)

\* The session as initGame leaves it.
SessionInit ==
    /\ planes \in InitialRosters(CanvasWidth * PosScale, CanvasHeight * PosScale)
    /\ isPaused = TRUE
    /\ collisions = 0
    /\ landings = 0
    /\ gameTime = 0
    /\ canvasSize = [width |-> CanvasWidth, height |-> CanvasHeight]
    /\ planeCounter = InitialPlaneCount
    /\ ticks = 0
    /\ spawns = 0
    /\ aiCalls = 0
    /\ aiRequest = <<>>
    /\ last = [op |-> "init"]

\* callAI up to its await: nothing while a request is in flight or no plane
\* is active; otherwise getAICommands is sent the roster of the moment.
getAICommands ==
    /\ aiRequest = <<>>
    /\ \E k \in 1..Len(planes) :
          planes[k].status # "landed" /\ planes[k].status # "crashed"
    /\ aiRequest' = planes
    /\ last' = [op |-> "request"]
    /\ UNCHANGED <<planes, isPaused, collisions, landings, gameTime, canvasSize,
                   planeCounter, ticks, aiCalls, spawns>>

\* callAI after its await: the response, with no command or with one command
\* for a plane of the roster that was sent, is applied to the roster of the
\* moment. The history records whether initGame ran while the request was in
\* flight (a request always follows the reset it is sent after).
ApplyResponse ==
    /\ aiRequest # <<>>
    /\ aiCalls < MaxAiCalls
    /\ \E commands \in {<<>>} \cup
            {<<c>> : c \in {c \in Commands :
                              \E k \in 1..Len(aiRequest) : aiRequest[k].id = c.planeId}} :
          /\ planes' = IF Len(commands) > 0 THEN ApplyCommands(planes, commands)
                       ELSE planes
          /\ last' = [op |-> "commands", commands |-> commands, pre |-> planes,
                      errors |-> CommandErrors(planes, commands),
                      sent |-> aiRequest, acrossReset |-> (last.op = "reset")]
    /\ aiRequest' = <<>>
    /\ aiCalls' = aiCalls + 1
    /\ UNCHANGED <<isPaused, collisions, landings, gameTime, canvasSize, planeCounter,
                   ticks, spawns>>

SpecSession == SessionInit /\ [][getAICommands \/ ApplyResponse \/ Reset \/ togglePause]_vars

----------------------------------------------------------------------------
(* An approaching plane under ticks that never stop *)

\* deltaTime / 16.67 of a session that is drawn at 15 frames a second.
SlowDeltaFrames == {4}

\* One plane as the approach command leaves it: approaching, in the approach
\* corridor (its middle, its north-east corner), on any heading, at the
\* approach speed.
ApproachRosters ==
    {<<StatusPlane(1, xy[1], xy[2], h, ApproachSpeed, "approaching")>> :
        xy \in {<<700, 400>>, <<800, 360>>}, h \in {0, 90, 270}}

ApproachInit ==
    /\ planes \in ApproachRosters
    /\ isPaused = FALSE
    /\ collisions = 0
    /\ landings = 0
    /\ gameTime = 0
    /\ canvasSize = [width |-> CanvasWidth, height |-> CanvasHeight]
    /\ planeCounter = Len(planes)
    /\ ticks = 0
    /\ spawns = 0
    /\ aiCalls = 0
    /\ aiRequest = <<>>
    /\ last = [op |-> "init"]

\* The animation frame callback of the game loop is called: the loop is given
\* updateGame for as long as the session is not paused. The count of calls is
\* kept modulo MaxTicks + 1, which keeps a flight of any length finite.
FrameDue ==
    /\ ~isPaused
    /\ ticks' = (ticks + 1) % (MaxTicks + 1)

\* updateGame of the running session, again and again. The game time stops
\* at MaxTicks calls; the roster goes on.
ApproachTick ==
    \E dt \in SlowDeltaFrames : \E step \in {Stepped(dt)} :
            /\ FrameDue
            /\ gameTime' = IF gameTime < MaxTicks * dt THEN gameTime + dt ELSE gameTime
            /\ planes' = step.planes
            /\ collisions' = step.collisions
            /\ landings' = step.landings
            /\ last' = [op |-> "tick", paused |-> FALSE]
            /\ UNCHANGED <<aiRequest, isPaused, canvasSize, planeCounter, aiCalls, spawns>>

\* A response with one speed command for the plane, received at any time of
\* the flight.
SpeedCommand ==
    \E v \in SpeedValues :
        LET commands == <<[planeId |-> 1, action |-> "speed", value |-> v]>>
        IN  /\ aiCalls < MaxAiCalls
            /\ aiCalls' = aiCalls + 1
            /\ planes' = ApplyCommands(planes, commands)
            /\ last' = [op |-> "commands", paused |-> FALSE]
            /\ UNCHANGED <<aiRequest, isPaused, collisions, landings, gameTime, canvasSize,
                           planeCounter, ticks, spawns>>

ApproachNext == ApproachTick \/ SpeedCommand

\* The game loop calls updateGame for as long as the session runs: a frame
\* that is due is drawn.
SpecApproach == ApproachInit /\ [][ApproachNext]_vars /\ WF_ticks(FrameDue)

----------------------------------------------------------------------------
(* Properties *)

Terminal(status) == status = "crashed" \/ status = "landed"

InRoster(ps, id) == \E k \in 1..Len(ps) : ps[k].id = id

\* The plane of roster ps with the given id (ids are unique in a roster).
PlaneOf(ps, id) == ps[CHOOSE k \in 1..Len(ps) : ps[k].id = id]

\* Holds of every step that runs initGame (Reset, handleResize); the only
\* other steps it holds of are pause toggles taken right after a reset.
ResetStep == last'.op = "reset" /\ isPaused'

AfterReset == last.op = "reset"
AfterTick == last.op = "tick" /\ ~last.paused
AfterCommands == last.op = "commands"

OverAirport(plane) ==
    isOverAirport(plane.position, airport.runwayStart, airport.runwayEnd,
                  airport.runwayWidth)

InApproachZone(plane) ==
    isInApproachZone(plane.position, airport.runwayStart, airport.runwayEnd,
                     airport.runwayWidth)

OnLandingStrip(plane) ==
    isOnRunway(plane.position, airport.runwayStart, airport.runwayEnd,
               airport.runwayWidth, TRUE)

HeadingOff(plane) == Abs(angleDifference(plane.heading, airport.runwayHeading))

\* C1: terminal statuses are absorbing: in every step but a reset (a tick, a
\* command batch, a spawn), a plane whose status is crashed or landed and that
\* is still in the roster keeps that status.
C1_TerminalAbsorbing ==
    [][~ResetStep =>
        \A k \in 1..Len(planes) :
          Terminal(planes[k].status) /\ InRoster(planes', planes[k].id)
            => PlaneOf(planes', planes[k].id).status = planes[k].status]_vars

\* C2: at the end of an unpaused tick, every pair of planes that were both
\* non-terminal when the collision scan began and are closer than the
\* collision distance after the movement are both crashed.
C2_AllClosePairsCrashed ==
    AfterTick =>
        \A i, j \in 1..Len(last.moved) :
            ( /\ i < j
              /\ ~Terminal(last.moved[i].status)
              /\ ~Terminal(last.moved[j].status)
              /\ DistanceLess(last.moved[i].position, last.moved[j].position,
                              CollisionDistance) )
            => /\ last.checked[i].status = "crashed"
               /\ last.checked[j].status = "crashed"

\* C3: in an unpaused tick every plane that is still flying after the
\* collision scan and is inside the exclusion zone after the movement becomes
\* crashed, the collision counter grows by one for each such plane, an
\* approaching plane is not crashed by this pass, and after the tick no flying
\* plane of the roster is inside the exclusion zone.
C3_UnauthorizedIncursion ==
    AfterTick =>
        /\ \A k \in 1..Len(last.scanned) :
              /\ (last.scanned[k].status = "flying" /\ OverAirport(last.scanned[k]))
                    => last.checked[k].status = "crashed"
              /\ last.scanned[k].status = "approaching"
                    => last.checked[k].status # "crashed"
        /\ collisions = last.scanCollisions
              + Cardinality({k \in 1..Len(last.scanned) :
                               /\ last.scanned[k].status = "flying"
                               /\ OverAirport(last.scanned[k])})
        /\ \A k \in 1..Len(planes) :
              planes[k].status = "flying" => ~OverAirport(planes[k])

\* C3 witness: a tick crashed a flying plane for incursion into the exclusion
\* zone and counted it.
C3_Witness ==
    /\ AfterTick
    /\ \E k \in 1..Len(last.scanned) :
          /\ last.scanned[k].status = "flying"
          /\ OverAirport(last.scanned[k])
          /\ last.checked[k].status = "crashed"
          /\ collisions = last.collisions + 1

\* C4: in an unpaused tick an approaching plane that was not crashed by the
\* collision scan, is on the runway rectangle with its overshoot extension
\* after the movement, has its heading less than 25 degrees off the runway
\* heading and its speed below the landing threshold, is landed with speed 0
\* (and leaves the roster) in that tick.
C4_LandingRule ==
    AfterTick =>
        \A k \in 1..Len(last.scanned) :
            ( /\ last.scanned[k].status = "approaching"
              /\ OnLandingStrip(last.scanned[k])
              /\ HeadingOff(last.scanned[k]) < LandingTolerance
              /\ last.scanned[k].speed < LandingSpeed )
            => /\ last.checked[k].status = "landed"
               /\ last.checked[k].speed = 0
               /\ ~InRoster(planes, last.scanned[k].id)

\* C4 witness: a tick landed an approaching, aligned plane on the runway.
C4_Witness ==
    /\ AfterTick
    /\ \E k \in 1..Len(last.scanned) :
          /\ last.scanned[k].status = "approaching"
          /\ OnLandingStrip(last.scanned[k])
          /\ HeadingOff(last.scanned[k]) < LandingTolerance
          /\ last.checked[k].status = "landed"

C6_LandedRemovedAndCounted ==
    /\ \A k \in 1..Len(planes) : planes[k].status # "landed"
    /\ AfterTick =>
          /\ landings = last.landings + (Len(last.pre) - Len(planes))
          /\ \A k \in 1..Len(last.checked) :
                InRoster(planes, last.checked[k].id)
                    <=> last.checked[k].status # "landed"
          /\ \A k \in 1..Len(last.pre) :
                last.pre[k].status = "crashed" => InRoster(planes, last.pre[k].id)

\* C6 witness: a tick landed and removed a plane while a crashed plane stayed.
C6_Witness ==
    /\ AfterTick
    /\ Len(planes) < Len(last.pre)
    /\ landings > last.landings
    /\ \E k \in 1..Len(planes) : planes[k].status = "crashed"

\* C7: a tick leaves the position, heading, speed and status of every plane
\* that is crashed at its start unchanged.
C7_CrashedFrozen ==
    AfterTick =>
        \A k \in 1..Len(last.pre) :
            last.pre[k].status = "crashed"
              => /\ InRoster(planes, last.pre[k].id)
                 /\ PlaneOf(planes, last.pre[k].id) = last.pre[k]

\* C7 witness: a tick ran over a roster that held a crashed plane.
C7_Witness ==
    /\ AfterTick
    /\ \E k \in 1..Len(last.pre) :
          /\ last.pre[k].status = "crashed"
          /\ last.pre[k].speed > 0
          /\ PlaneOf(planes, last.pre[k].id) = last.pre[k]

\* C8: every crashed plane of the roster has speed 0.
C8_CrashedSpeedZero ==
    \A k \in 1..Len(planes) : planes[k].status = "crashed" => planes[k].speed = 0

\* The command that a batch applies to a plane: the first one with its id.
CommandFor(commands, plane) == commands[FindCommand(commands, plane.id)]

Commanded(commands, plane, action) ==
    /\ FindCommand(commands, plane.id) # 0
    /\ CommandFor(commands, plane).action = action

\* The forecast as applyCommand asks for it (eight seconds, no canvas size).
Flagged(plane, heading, allPlanes) ==
    predictCollision(plane, heading, allPlanes, Undefined, Undefined, 8).willCollide

\* C9: a turn that changes the heading commits a heading that
\* predictCollision, for that plane against the roster passed to the call,
\* does not flag.
C9_TurnCommitsUnflaggedHeading ==
    AfterCommands =>
        \A k \in 1..Len(last.pre) :
            ( /\ Commanded(last.commands, last.pre[k], "turn")
              /\ planes[k].heading # last.pre[k].heading )
            => ~Flagged(last.pre[k], planes[k].heading, last.pre)

\* C9 witness: a turn whose requested heading was flagged committed another,
\* different from the plane's heading, with another active plane in the roster.
C9_Witness ==
    /\ AfterCommands
    /\ \E k \in 1..Len(last.pre) :
          /\ Commanded(last.commands, last.pre[k], "turn")
          /\ Flagged(last.pre[k],
                     normalizeAngle(CommandFor(last.commands, last.pre[k]).value),
                     last.pre)
          /\ planes[k].heading # last.pre[k].heading

\* The headings a turn tests: the requested one and its eleven offsets.
TestedHeadings(value) ==
    {normalizeAngle(value)}
        \cup {normalizeAngle(normalizeAngle(value) + Adjustments[i]) :
                i \in 1..Len(Adjustments)}

\* C10: a turn whose requested heading and every tested offset are flagged
\* returns the plane unchanged.
C10_TurnRejectedWhenSurrounded ==
    AfterCommands =>
        \A k \in 1..Len(last.pre) :
            ( /\ Commanded(last.commands, last.pre[k], "turn")
              /\ CommandFor(last.commands, last.pre[k]).value # Undefined
              /\ \A h \in TestedHeadings(CommandFor(last.commands, last.pre[k]).value) :
                     Flagged(last.pre[k], h, last.pre) )
            => planes[k] = last.pre[k]

\* C10 witness: a turn was applied to a flying plane all of whose tested
\* headings were flagged.
C10_Witness ==
    /\ AfterCommands
    /\ \E k \in 1..Len(last.pre) :
          /\ Commanded(last.commands, last.pre[k], "turn")
          /\ last.pre[k].status = "flying"
          /\ \A h \in TestedHeadings(CommandFor(last.commands, last.pre[k]).value) :
                 Flagged(last.pre[k], h, last.pre)
          /\ planes[k] = last.pre[k]

\* The zone-entry forecast as the turn check asks for it (six seconds).
EntersAirport(plane, heading) ==
    predictAirportZoneEntry(plane, heading, airport, 6).willEnter

\* C11: a turn applied to a flying plane either leaves its heading unchanged
\* or commits a heading for which predictAirportZoneEntry, over the six
\* seconds of the turn check, reports no entry into the exclusion zone.
C11_TurnAvoidsAirport ==
    AfterCommands =>
        \A k \in 1..Len(last.pre) :
            ( /\ Commanded(last.commands, last.pre[k], "turn")
              /\ last.pre[k].status = "flying"
              /\ planes[k].heading # last.pre[k].heading )
            => ~EntersAirport(last.pre[k], planes[k].heading)

\* C12: a turn or a hold applied to an approaching plane returns the plane
\* unchanged (heading, speed, status and position), whatever the value and
\* the roster.
C12_ApproachingIgnoresTurnAndHold ==
    AfterCommands =>
        \A k \in 1..Len(last.pre) :
            ( /\ last.pre[k].status = "approaching"
              /\ \/ Commanded(last.commands, last.pre[k], "turn")
                 \/ Commanded(last.commands, last.pre[k], "hold") )
            => planes[k] = last.pre[k]

\* C12 witness: a hold was applied to an approaching plane that does not head
\* 180, next to another active plane, and left it as it was.
C12_Witness ==
    /\ AfterCommands
    /\ Len(last.pre) > 1
    /\ \E k \in 1..Len(last.pre) :
          /\ last.pre[k].status = "approaching"
          /\ last.pre[k].heading # HoldHeading
          /\ Commanded(last.commands, last.pre[k], "hold")
          /\ planes[k] = last.pre[k]

\* C13: an approach command applied to a plane inside the approach corridor
\* returns it with status approaching and speed min(speed, 0.4), heading and
\* position unchanged; applied to a plane outside the corridor it returns the
\* plane unchanged.
C13_ApproachOnlyInCorridor ==
    AfterCommands =>
        \A k \in 1..Len(last.pre) :
            Commanded(last.commands, last.pre[k], "approach")
            => IF InApproachZone(last.pre[k])
               THEN planes[k] =
                      [last.pre[k] EXCEPT
                         !.status = "approaching",
                         !.speed = IF last.pre[k].speed < ApproachSpeed
                                   THEN last.pre[k].speed ELSE ApproachSpeed]
               ELSE planes[k] = last.pre[k]

\* C13 witness: an approach command was applied to a flying plane in the
\* corridor faster than 0.4, which is now approaching at 0.4.
C13_Witness ==
    /\ AfterCommands
    /\ \E k \in 1..Len(last.pre) :
          /\ Commanded(last.commands, last.pre[k], "approach")
          /\ InApproachZone(last.pre[k])
          /\ last.pre[k].status = "flying"
          /\ last.pre[k].speed > ApproachSpeed
          /\ planes[k].status = "approaching"
          /\ planes[k].speed = ApproachSpeed

\* C14: every change of status from flying to approaching happens to a plane
\* that is inside the approach corridor and whose heading is within the
\* alignment tolerance (less than 25 degrees) of the runway heading.
C14_ApproachNeedsAlignment ==
    AfterCommands =>
        \A k \in 1..Len(last.pre) :
            (last.pre[k].status = "flying" /\ planes[k].status = "approaching")
            => /\ InApproachZone(last.pre[k])
               /\ HeadingOff(last.pre[k]) < LandingTolerance

\* C15: a speed command with value v returns speed max(0.15, min(0.8, v))
\* whatever the status of the plane, and leaves heading, status and position
\* unchanged.
C15_SpeedClamped ==
    AfterCommands =>
        \A k \in 1..Len(last.pre) :
            ( /\ Commanded(last.commands, last.pre[k], "speed")
              /\ CommandFor(last.commands, last.pre[k]).value # Undefined )
            => LET v == CommandFor(last.commands, last.pre[k]).value
               IN  planes[k] =
                     [last.pre[k] EXCEPT
                        !.speed = IF v < 150 THEN 150 ELSE IF v > 800 THEN 800 ELSE v]

\* C15 witness: a speed command below the range was applied to a plane that
\* is not flying and was faster; its speed is now the lower limit 0.15.
C15_Witness ==
    /\ AfterCommands
    /\ \E k \in 1..Len(last.pre) :
          /\ Commanded(last.commands, last.pre[k], "speed")
          /\ CommandFor(last.commands, last.pre[k]).value < 150
          /\ last.pre[k].status # "flying"
          /\ last.pre[k].speed > 150
          /\ planes[k].speed = 150

\* C17: a hold applied to a flying plane whose speed is in [0.15, 0.8] never
\* returns a greater speed, in the normal and in the emergency branch.
C17_HoldNeverSpeedsUp ==
    AfterCommands =>
        \A k \in 1..Len(last.pre) :
            ( /\ Commanded(last.commands, last.pre[k], "hold")
              /\ last.pre[k].status = "flying"
              /\ last.pre[k].speed >= 150
              /\ last.pre[k].speed <= 800 )
            => planes[k].speed <= last.pre[k].speed

\* C16: a hold that does not take the emergency branch changes the heading of
\* a flying plane by at most 15 degrees and never away from the holding
\* heading 180; after 12 such holds in a row the heading is exactly 180, and
\* a further such hold leaves it 180.
C16_HoldConverges ==
    (AfterCommands /\ last.run >= 1) =>
        LET old == last.pre[1].heading
            new == planes[1].heading
        IN  /\ Abs(angleDifference(old, new)) <= 15
            /\ Abs(angleDifference(new, 180)) <= Abs(angleDifference(old, 180))
            /\ old # 180 => Abs(angleDifference(new, 180)) < Abs(angleDifference(old, 180))
            /\ old = 180 => new = 180
            /\ last.run >= 12 => new = 180

\* C16 witness: the twelfth hold of a run brought the heading to 180.
C16_Witness ==
    /\ AfterCommands
    /\ last.run = 12
    /\ last.pre[1].heading # 180
    /\ planes[1].heading = 180

\* C18: a tick changes the heading of an approaching plane by at most 2
\* degrees, and never away from the bearing of the runway centre, however
\* large the bearing error is; it does not change the heading of a flying plane.
C18_CorrectionBounded ==
    AfterTick =>
        \A k \in 1..Len(last.pre) :
            LET old    == last.pre[k].heading
                new    == last.checked[k].heading
                target == TargetHeading(last.pre[k].position, airport)
            IN  /\ last.pre[k].status = "approaching"
                    => /\ Abs(angleDifference(old, new)) <= 2
                       /\ Abs(angleDifference(new, target)) <= Abs(angleDifference(old, target))
                /\ last.pre[k].status = "flying" => new = old

\* C18 witness: a tick turned an approaching plane whose bearing error was
\* more than 20 degrees by exactly 2 degrees.
C18_Witness ==
    /\ AfterTick
    /\ \E k \in 1..Len(last.pre) :
          /\ last.pre[k].status = "approaching"
          /\ Abs(angleDifference(last.pre[k].heading,
                                 TargetHeading(last.pre[k].position, airport))) > 20
          /\ Abs(angleDifference(last.pre[k].heading, last.checked[k].heading)) = 2

\* C19: updateGame on a paused session leaves the roster (every plane's
\* position, heading, speed and status), the collision and landing counters
\* and the game time unchanged.
C19_PausedTickIsIdentity ==
    (last.op = "tick" /\ last.paused) =>
        /\ planes = last.pre
        /\ collisions = last.collisions
        /\ landings = last.landings
        /\ gameTime = last.gameTime

\* C19 witness: updateGame was called on a paused session that had ticked
\* before and holds a plane that would have moved.
C19_Witness ==
    /\ last.op = "tick"
    /\ last.paused
    /\ ticks > 0
    /\ \E k \in 1..Len(planes) : ~Terminal(planes[k].status) /\ planes[k].speed > 0

\* C20: while the session stays paused and is not reset, no step changes the
\* heading, speed or status of a plane or the membership of the roster.
C20_FrozenWhilePaused ==
    [][(isPaused /\ isPaused' /\ ~ResetStep) =>
          /\ Len(planes') = Len(planes)
          /\ \A k \in 1..Len(planes) :
                /\ planes'[k].id = planes[k].id
                /\ planes'[k].heading = planes[k].heading
                /\ planes'[k].speed = planes[k].speed
                /\ planes'[k].status = planes[k].status]_vars

\* C21: a command batch changes at most the heading, speed and status of the
\* planes whose id a command of the batch names: every other plane is the same
\* record as before, every plane keeps its position, id, callsign and colour,
\* the roster keeps its length and order, and the airport, both counters, the
\* game time and the pause flag are unchanged.
C21_CommandsMutateOnlyTarget ==
    [][aiCalls' # aiCalls =>
        /\ Len(planes') = Len(planes)
        /\ \A k \in 1..Len(planes) :
              /\ planes'[k].id = planes[k].id
              /\ planes'[k].position = planes[k].position
              /\ planes'[k].callsign = planes[k].callsign
              /\ planes'[k].color = planes[k].color
              /\ (\A c \in 1..Len(last'.commands) :
                      last'.commands[c].planeId # planes[k].id)
                    => planes'[k] = planes[k]
        /\ airport' = airport
        /\ UNCHANGED <<isPaused, collisions, landings, gameTime>>]_vars

\* A batch has changed the heading of one plane and the speed of another while
\* a third plane, which no command names, is in the roster.
C21_Witness ==
    /\ AfterCommands
    /\ Len(planes) = 3
    /\ \E i, j, k \in 1..3 :
          /\ planes[i].heading # last.pre[i].heading
          /\ j # i /\ planes[j].speed # last.pre[j].speed
          /\ \A c \in 1..Len(last.commands) : last.commands[c].planeId # planes[k].id

\* C22: after a batch is applied, every heading that a turn of the batch has
\* committed is forecast collision-free against the roster as the whole
\* batch leaves it (the other planes with the headings and speeds that the
\* other commands of the batch have given them).
C22_TurnsValidatedAgainstCurrentRoster ==
    AfterCommands =>
        \A k \in 1..Len(planes) :
            (Commanded(last.commands, last.pre[k], "turn")
             /\ planes[k].heading # last.pre[k].heading)
            => ~Flagged(planes[k], planes[k].heading, planes)

\* C23: a command of a batch whose planeId matches no plane of the roster
\* the batch is applied to is reported as failed.
C23_UnknownIdSignalled ==
    AfterCommands =>
        \A c \in 1..Len(last.commands) :
            ~InRoster(last.pre, last.commands[c].planeId) => c \in last.errors

\* A position is a safe spawn position: at least 120 px from every plane of
\* the roster that is neither crashed nor landed, and at least 200 px from
\* the airport centre.
SafeSpawn(position, ps) ==
    /\ \A k \in 1..Len(ps) :
          ~Terminal(ps[k].status) => ~DistanceLess(position, ps[k].position, 120)
    /\ ~DistanceLess(position, airport.position, 200)

\* C24: createPlane draws at most 11 positions and returns a flying plane
\* whose position is the first drawn position that is a safe spawn position,
\* or the 11th drawn position when none of the 11 is safe.
C24_CreatePlaneBestEffort ==
    last.op = "createPlane" =>
        LET new  == planes[Len(planes)]
            used == last.attempts + 1
            safe == {i \in 1..11 : SafeSpawn(last.draws[i], last.pre)}
        IN  /\ Len(planes) = Len(last.pre) + 1
            /\ used <= 11
            /\ new.status = "flying"
            /\ new.position = last.draws[used]
            /\ IF safe = {} THEN used = 11
               ELSE used \in safe /\ \A i \in safe : used <= i

\* createPlane has drawn 11 positions, none of them safe, and has returned a
\* flying plane at the 11th although another flying plane is closer than 120 px.
C24_Witness ==
    /\ last.op = "createPlane"
    /\ last.attempts = 10
    /\ planes[Len(planes)].status = "flying"
    /\ \E k \in 1..Len(last.pre) :
          /\ last.pre[k].status = "flying"
          /\ DistanceLess(planes[Len(planes)].position, last.pre[k].position, 120)

\* The planes the collision scan of the last tick has marked crashed, and
\* those its incursion scan has marked crashed (indices in the roster of
\* the tick, before landed planes are removed).
CrashedByCollision ==
    {k \in 1..Len(last.moved) :
        last.moved[k].status # "crashed" /\ last.scanned[k].status = "crashed"}

CrashedByIncursion ==
    {k \in 1..Len(last.scanned) :
        last.scanned[k].status # "crashed" /\ last.checked[k].status = "crashed"}

\* C25: in a tick the collision counter grows by the number of pairs the
\* collision scan has marked crashed (each marked plane belongs to one pair,
\* so half the number of planes it marked) plus the number of planes the
\* incursion scan has marked crashed; every plane that became crashed in the
\* tick was marked by exactly one of the two scans; and a roster of two
\* flying planes closer than 30 px raises the counter by exactly 1, inside
\* the exclusion zone too.
C25_CrashAccounting ==
    AfterTick =>
        /\ 2 * (collisions - last.collisions - Cardinality(CrashedByIncursion))
             = Cardinality(CrashedByCollision)
        /\ {k \in 1..Len(last.pre) :
               last.pre[k].status # "crashed" /\ last.checked[k].status = "crashed"}
             = CrashedByCollision \cup CrashedByIncursion
        /\ CrashedByCollision \cap CrashedByIncursion = {}
        /\ ( /\ Len(last.moved) = 2
             /\ last.moved[1].status = "flying" /\ last.moved[2].status = "flying"
             /\ DistanceLess(last.moved[1].position, last.moved[2].position, 30) )
           => collisions = last.collisions + 1

\* A tick has moved two flying planes to less than 30 px from each other,
\* both inside the exclusion zone, and the counter has grown by 1.
C25_Witness ==
    /\ AfterTick
    /\ Len(last.moved) = 2
    /\ last.moved[1].status = "flying" /\ last.moved[2].status = "flying"
    /\ DistanceLess(last.moved[1].position, last.moved[2].position, 30)
    /\ OverAirport(last.moved[1]) /\ OverAirport(last.moved[2])
    /\ collisions = last.collisions + 1

\* A position generateSpawnPosition may return on a canvas of the given size.
OnSpawnEdge(position, canvasWidth, canvasHeight) ==
    LET margin == SpawnMargin * PosScale
    IN  \/ /\ position.x = margin
           /\ position.y >= margin /\ position.y <= canvasHeight - margin
        \/ /\ position.y \in {margin, canvasHeight - margin}
           /\ position.x >= margin /\ 10 * position.x <= 4 * canvasWidth

\* C26: a step that runs initGame leaves a roster of exactly
\* initialPlaneCount planes as createPlane makes them (flying, heading 0, on a
\* spawn edge of the canvas, speed in [0.3, 0.6)) with ids 1..n in order, the
\* plane counter at n, both counters and the game time at 0, and the session
\* paused; no crashed plane is left.
C26_ResetReinitialises ==
    [][(last'.op = "reset" /\ last' # last) =>
        /\ Len(planes') = InitialPlaneCount
        /\ \A k \in 1..Len(planes') :
              /\ planes'[k].id = k
              /\ planes'[k].status = "flying"
              /\ planes'[k].heading = 0
              /\ planes'[k].speed >= 300 /\ planes'[k].speed < 600
              /\ OnSpawnEdge(planes'[k].position, canvasSize'.width * PosScale,
                             canvasSize'.height * PosScale)
        /\ planeCounter' = InitialPlaneCount
        /\ collisions' = 0
        /\ landings' = 0
        /\ gameTime' = 0
        /\ isPaused' = TRUE]_vars

\* initGame has run in a state whose roster held a crashed plane, and the
\* state is the fresh one: four flying planes, counters at 0, paused.
C26_Witness ==
    /\ AfterReset
    /\ last.crashed
    /\ Len(planes) = InitialPlaneCount
    /\ \A k \in 1..Len(planes) : planes[k].id = k /\ planes[k].status = "flying"
    /\ collisions = 0 /\ landings = 0 /\ gameTime = 0
    /\ isPaused

\* C27: for points p1, p2 and a canvas of positive width and height,
\* wrappedDistance(p1, p2, W, H) <= distance(p1, p2), and the two are equal
\* when |dx| <= W/2 and |dy| <= H/2.
C27_WrappedNotLonger ==
    last.op = "wrappedDistance" =>
        LET dx == last.p2.x - last.p1.x
            dy == last.p2.y - last.p1.y
        IN  /\ last.wrapped <= last.plain
            /\ (2 * Abs(dx) <= last.width /\ 2 * Abs(dy) <= last.height)
                  => last.wrapped = last.plain

\* Two points further apart than a whole canvas in x and than half a canvas
\* in y: the wrapped distance is strictly shorter than the plain one.
C27_Witness ==
    /\ last.op = "wrappedDistance"
    /\ Abs(last.p2.x - last.p1.x) > last.width
    /\ 2 * Abs(last.p2.y - last.p1.y) > last.height
    /\ last.wrapped < last.plain
    /\ last.wrapped > 0

\* C28: for every input x, normalizeAngle(x) is at least 0 and below 360, and
\* normalizeAngle(normalizeAngle(x)) = normalizeAngle(x).
C28_NormalizedRange ==
    last.op = "normalizeAngle" =>
        /\ ~IsNegative(last.result)
        /\ IsBelow360(last.result)
        /\ last.again = last.result

\* The plane, flying the given heading, and another plane of the roster that
\* is neither that plane nor crashed nor landed, both moved along straight
\* lines for `frame` frames, are closer than 50 px.
CloseAtFrame(plane, heading, ps, frame) ==
    \E k \in 1..Len(ps) :
        /\ ps[k].id # plane.id
        /\ ~Terminal(ps[k].status)
        /\ DistanceLess(
              SimPosition(plane.position, Velocity(heading, plane.speed), frame),
              SimPosition(ps[k].position, Velocity(ps[k].heading, ps[k].speed), frame),
              50)

\* C29: predictCollision reports willCollide exactly when at some frame of
\* 5, 10, ..., 480 the plane under the candidate heading and another plane
\* that is neither crashed nor landed are closer than 50 px, and the time it
\* reports is the smallest such frame (divided by 60).
C29_PredictCollisionExact ==
    last.op = "predictCollision" =>
        LET plane  == planes[last.plane]
            frames == {f \in {5 * n : n \in 1..96} :
                          CloseAtFrame(plane, last.heading, planes, f)}
        IN  /\ last.willCollide <=> frames # {}
            /\ last.willCollide =>
                  /\ last.timeToCollision \in frames
                  /\ \A f \in frames : last.timeToCollision <= f

\* predictCollision has reported a collision, later than the first sampled
\* frame, for a plane that flies at a flying plane while a crashed plane lies
\* closer than 50 px to its path.
C29_Witness ==
    /\ last.op = "predictCollision"
    /\ last.willCollide
    /\ last.timeToCollision > 5
    /\ \E k \in 1..Len(planes), f \in {5 * n : n \in 1..96} :
          /\ planes[k].status = "crashed"
          /\ f < last.timeToCollision
          /\ DistanceLess(
                SimPosition(planes[last.plane].position,
                            Velocity(last.heading, planes[last.plane].speed), f),
                planes[k].position, 50)

\* C30: findSafeHeading returns the requested heading plus the first of the
\* offsets 30, -30, 60, -60, 90, -90, 120, -120, 150, -150, 180 (normalised)
\* for which predictCollision reports no collision, and null exactly when it
\* reports one for each of the eleven; a heading it returns is not flagged.
C30_FirstClearOffset ==
    last.op = "findSafeHeading" =>
        LET plane   == planes[last.plane]
            offsets == <<30, -30, 60, -60, 90, -90, 120, -120, 150, -150, 180>>
            Try(i)  == normalizeAngle(last.heading + offsets[i])
            clear   == {i \in 1..11 : ~Flagged(plane, Try(i), planes)}
        IN  /\ (last.result = Null) <=> (clear = {})
            /\ last.result # Null =>
                  /\ \E i \in clear : /\ last.result = Try(i)
                                       /\ \A j \in clear : i <= j
                  /\ ~Flagged(plane, last.result, planes)

\* findSafeHeading has passed over flagged offsets and returned a later one.
C30_Witness ==
    /\ last.op = "findSafeHeading"
    /\ last.result # Null
    /\ Flagged(planes[last.plane], normalizeAngle(last.heading + 30), planes)
    /\ Flagged(planes[last.plane], normalizeAngle(last.heading - 30), planes)
    /\ ~Flagged(planes[last.plane], last.result, planes)

\* What a batch leaves when each of its commands is carried out once, in the
\* order of the batch, on the plane it names; as in callAI, every applyCommand
\* is given the roster of before the batch.
RECURSIVE AppliedInOrder(_, _, _)
AppliedInOrder(ps, prevPlanes, commands) ==
    IF commands = <<>> THEN ps
    ELSE AppliedInOrder(
           [k \in 1..Len(ps) |->
               IF ps[k].id = Head(commands).planeId
               THEN applyCommand(ps[k], Head(commands), airport, prevPlanes)
               ELSE ps[k]],
           prevPlanes, Tail(commands))

\* C31: after a batch is applied the roster is what results from carrying out
\* every command whose plane is in the roster exactly once, in batch order,
\* also when two commands of the batch name the same plane.
C31_EveryCommandAppliedOnce ==
    AfterCommands => planes = AppliedInOrder(last.pre, last.pre, last.commands)

C33_CollisionAcrossEdges ==
    AfterTick =>
        \A i, j \in 1..Len(last.moved) :
            ( /\ i < j
              /\ ~Terminal(last.moved[i].status)
              /\ ~Terminal(last.moved[j].status)
              /\ WrappedDistanceLess(last.moved[i].position, last.moved[j].position,
                                     canvasSize.width * PosScale,
                                     canvasSize.height * PosScale, CollisionDistance)
              /\ ~DistanceLess(last.moved[i].position, last.moved[j].position,
                               CollisionDistance) )
            => /\ last.checked[i].status = "crashed"
               /\ last.checked[j].status = "crashed"

\* C34: in every state every plane that is not terminal has a speed of at
\* least 0.15 and at most 0.8, which is below the landing threshold of 2; and
\* no tick leaves an approaching plane on the runway rectangle, less than 25
\* degrees off the runway heading, without landing it.
C34_SpeedRange ==
    /\ \A k \in 1..Len(planes) :
          ~Terminal(planes[k].status)
            => /\ planes[k].speed >= MinSpeed
               /\ planes[k].speed <= MaxSpeed
               /\ planes[k].speed < LandingSpeed
    /\ AfterTick =>
          \A k \in 1..Len(last.checked) :
              ( /\ last.checked[k].status = "approaching"
                /\ OnLandingStrip(last.checked[k]) )
              => HeadingOff(last.checked[k]) >= LandingTolerance

\* After three or more batches the plane flies at the lower limit of the
\* range, having been slowed by holds after a speed command.
C34_Witness ==
    /\ AfterCommands
    /\ aiCalls >= 3
    /\ Len(planes) = 1
    /\ last.commands[1].action = "hold"
    /\ planes[1].status = "flying"
    /\ last.pre[1].speed > MinSpeed
    /\ planes[1].speed = MinSpeed

\* C35: in every state the number of planes created since the last reset
\* (planeCounter: set to 0 by initGame, raised by every createPlane) equals
\* the length of the roster plus the landing counter; and in every step that
\* is not a reset the collision and landing counters do not decrease, and the
\* planes that leave the roster are as many as the landing counter grows by.
C35_Conservation ==
    /\ [](planeCounter = Len(planes) + landings)
    /\ [][~ResetStep =>
            /\ collisions' >= collisions
            /\ landings' >= landings
            /\ Cardinality({k \in 1..Len(planes) : ~InRoster(planes', planes[k].id)})
                  = landings' - landings
            /\ \A k \in 1..Len(planes) :
                  (planes[k].status # "approaching") => InRoster(planes', planes[k].id)]_vars

\* A plane has landed and left the roster, and the spawn effect has created
\* another one since.
C35_Witness ==
    /\ last.op = "spawn"
    /\ landings >= 1
    /\ planeCounter > Len(planes)
    /\ Len(planes) >= 1

\* The forecast of predictCollision for a plane on its own heading against
\* the roster ps is clear, both as applyCommand calls it (no canvas size) and
\* with the size of the canvas.
ClearedOfCollision(plane, ps) ==
    /\ ~predictCollision(plane, plane.heading, ps, Undefined, Undefined,
                         ForecastSeconds).willCollide
    /\ ~predictCollision(plane, plane.heading, ps, canvasSize.width * PosScale,
                         canvasSize.height * PosScale, ForecastSeconds).willCollide

\* C36: when a flight of one frame per tick starts from a roster of flying
\* planes in which predictCollision clears the heading a plane flies, the
\* collision scan marks that plane crashed in none of the next 480 ticks,
\* also when a plane crosses a canvas edge and is wrapped to the other side.
C36_CollisionForecastSound ==
    (AfterTick /\ gameTime <= ForecastSeconds * FPS) =>
        \A k \in 1..Len(last.start) :
            ( /\ \A j \in 1..Len(last.start) : last.start[j].status = "flying"
              /\ ClearedOfCollision(last.start[k], last.start) )
            => ~(last.moved[k].status # "crashed" /\ last.scanned[k].status = "crashed")

\* secondsAhead of predictAirportZoneEntry as applyCommand calls it.
ZoneForecastSeconds == 6

\* C37: when a flight of one frame per tick starts with a flying plane for
\* whose heading predictAirportZoneEntry reports no entry over its horizon,
\* the incursion pass marks that plane crashed at no tick within the horizon,
\* the ticks between two sampled frames included.
C37_ZoneForecastSound ==
    (AfterTick /\ gameTime <= ZoneForecastSeconds * FPS) =>
        \A k \in 1..Len(last.start) :
            ( /\ last.start[k].status = "flying"
              /\ ~predictAirportZoneEntry(last.start[k], last.start[k].heading,
                                          airport, ZoneForecastSeconds).willEnter )
            => ~(last.scanned[k].status = "flying" /\ last.checked[k].status = "crashed")

\* C38: when initGame has run between the sending of a decision request and
\* the arrival of its response, the commands of the response change no plane
\* of the new roster, although the ids of the new roster start again at
\* plane-1 and equal ids of the roster that was sent.
C38_IsolatedAcrossReset ==
    (AfterCommands /\ last.acrossReset) => planes = last.pre

====
